---- MODULE Spec2Model ----
(***************************************************************************)
(* winbollocks: the low-level mouse/keyboard hooks (hook thread), the      *)
(* command queue moveDataChan and the window procedure / executor (main    *)
(* thread), as a state machine.                                            *)
(*                                                                         *)
(* Environment conventions:                                                *)
(*  - physWin is the Win key the user holds (one at a time); asyncWin is   *)
(*    the set of Win keys GetAsyncKeyState reports down.  A key-up that a  *)
(*    hook swallows does not update the async state; synthetic input does. *)
(*    A key transition is either delivered to keyboardProc (and, unless    *)
(*    swallowed, to the shell) or happens while the session is locked,     *)
(*    where neither the hooks nor the shell see it.                        *)
(*    What reaches the shell is recorded as the claims speak of it: the    *)
(*    hook's return value and the synthetic input sent with SendInput.     *)
(*  - Shift/Ctrl/Alt, the window under the cursor, the window rectangle    *)
(*    and the foreground test are read from the OS at each event; they are *)
(*    inputs of the event.                                                 *)
(*  - elapsed abstracts time.Since(lastResize) >= 10ms.                    *)
(*  - An environment record E says what the desktop offers (windows,       *)
(*    cursor positions, Win keys, modifier combinations), which posted     *)
(*    messages the main thread handles before the next input arrives       *)
(*    (prompt), and which history variables are recorded.  Each            *)
(*    specification below runs the same callbacks in its own environment.  *)
(***************************************************************************)
EXTENDS Integers, Sequences, FiniteSets, TLC

\* ---------------------------------------------------------------- bounds
ChanCap == 1        \* capacity of moveDataChan in the model (2048 in the program)
MaxDropped == 1     \* droppedMoveEvents is counted up to this value
MaxPosted == 2      \* posted messages waiting in the worker's message queue
MaxDenied == 2      \* access-denied notifications counted for one DragState

\* ------------------------------------------------------- program constants
minimumW == 300
minimumH == 300
HWND_BOTTOM == 1
HWND_TOP == 0
ZONE_CENTER == 4

\* --------------------------------------------------------------- domains
Nil == [nil |-> TRUE]
NoKey == "none"
WinKeys == {"VK_LWIN", "VK_RWIN"}
Windows == {1, 2, 3}            \* top-level window handles; 0 is "no window"
ElevatedWnds == {3}             \* windows of a process with a higher integrity level

Pt(x, y) == [X |-> x, Y |-> y]
Rect(l, t, r, b) == [Left |-> l, Top |-> t, Right |-> r, Bottom |-> b]
Points == {Pt(100, 100), Pt(350, 350)}

\* The rectangles GetWindowRect may report for a window (windows can be moved
\* and resized by anyone between two events).
WindowRects(hwnd) ==
    CASE hwnd = 1 -> {Rect(0, 0, 400, 400)}
      [] hwnd = 2 -> {Rect(90, 90, 690, 490)}
      [] hwnd = 3 -> {Rect(0, 0, 800, 800)}
      [] hwnd = 4 -> {Rect(0, 80, 200, 230)}      \* a small tool window
      [] OTHER -> {Rect(0, 0, 0, 0)}

\* SetWindowPos flags, as a set of flag names
SWP_NOSIZE == "SWP_NOSIZE"
SWP_NOMOVE == "SWP_NOMOVE"
SWP_NOZORDER == "SWP_NOZORDER"
SWP_NOACTIVATE == "SWP_NOACTIVATE"
SWP_ASYNCWINDOWPOS == "SWP_ASYNCWINDOWPOS"

\* messages posted to the hidden window trayIcon.HWnd
WM_DO_SETWINDOWPOS == [msg |-> "WM_DO_SETWINDOWPOS", wParam |-> NoKey]
WM_FOCUS_TARGET_WINDOW_SOMEHOW == [msg |-> "WM_FOCUS_TARGET_WINDOW_SOMEHOW", wParam |-> NoKey]
WM_INJECT_SEQUENCE(vk) == [msg |-> "WM_INJECT_SEQUENCE", wParam |-> vk]

VARIABLES
    \* hook-side globals
    capturing, resizing, targetWnd, currentDrag, resizeZone, initialAspectRatio,
    winGestureUsed, lastPostedX, lastPostedY,
    \* settings (tray menu)
    focusOnDrag, ratelimitOnMove,
    \* transport
    moveDataChan, droppedMoveEvents, msgQueue,
    \* threads
    hookSend,       \* Nil, or the command the hook thread is blocked sending
    panicked,       \* "none" or the panic raised (on the hook thread, but for the
                    \* executor's nil dereference)
    workerPc,       \* "idle" | "drain"
    elapsed,        \* time.Since(lastResize) >= 10ms
    \* OS / shell
    physWin,        \* NoKey or the Win key the user holds down
    asyncWin,       \* the Win keys GetAsyncKeyState reports down
    mouseCapture,   \* SetCapture(trayIcon.HWnd) in effect
    trayInfo,       \* showTrayInfo has put up a notification
    \* history
    holdGesture,    \* a gesture was recognised in the current/last Win-hold
    holdTap,        \* a Shift tap was injected in the current/last Win-hold
    injected,       \* last SendInput: [what, by, vk]
    lastEv,         \* the last hook callback: its event kind
    ret,            \* and what it returned: "swallow" | "pass" | "none"
    lastPt,         \* the last cursor position a mouse move delivered to mouseProc
    endedMove,      \* Nil, or the move gesture the last LMB-up ended
    placed,         \* Nil, or the last SetWindowPos call that places a window, since
                    \* the DragState was created
    focusCall,      \* the last SetForegroundWindow call: [by, target]
    deniedNotes,    \* access-denied notifications the executor issued since the
                    \* DragState was created
    injectSeq,      \* WM_INJECT_SEQUENCE messages handled so far, modulo SeqMod
    execData,       \* Nil, or the command handleActualMoveOrResize is in the middle of
    access,         \* which thread has read ("r") or written ("w") which global:
                    \* a set of <<thread, global, mode>>
    \* shutdown
    hookPc,         \* hookWorker: "loop" | "watchdog" | "acked" | "parked"
    mainPc,         \* main: "loop" | "primary_defer" | "deinit done" | "flushing" |
                    \* "exited"
    hooks,          \* the low-level hooks installed
    acked,          \* mainAcknowledgedShutdown is closed
    quitPosted,     \* the threads WM_QUIT was posted to
    exited,         \* "no", or the deferred function whose os.Exit ended the process,
                    \* or "panic": the runtime ended it for a panic nothing recovered
    logChan,        \* "open" | "closed"
    closedSend,     \* history: the threads whose logf has executed the send on the
                    \* closed logChan
    \* the channel
    chanCap,        \* cap(moveDataChan), fixed when the channel is made
    order,          \* history of the hand-over: [enqueued, handed, behind, count]
    swp,            \* history of the Executor's SetWindowPos calls: [calls, last]
    downs,          \* the buttons ("L", "R") whose last button-down mouseProc swallowed
    focusReq,       \* history of the focus requests: [pending, arg]
    midResize       \* Nil, or what the WM_MOUSEMOVE callback the hook thread is in the
                    \* middle of has computed: [pt, n]

shutdownVars == <<hookPc, mainPc, hooks, acked, quitPosted, exited, logChan, closedSend>>

programVars ==
    <<capturing, resizing, targetWnd, currentDrag, resizeZone, initialAspectRatio,
      winGestureUsed, lastPostedX, lastPostedY, focusOnDrag, ratelimitOnMove,
      moveDataChan, droppedMoveEvents, msgQueue, hookSend, panicked, workerPc,
      elapsed, physWin, asyncWin, mouseCapture, trayInfo, holdGesture, holdTap,
      injected, lastEv, ret, lastPt, endedMove, placed, focusCall, deniedNotes,
      injectSeq, execData, access, chanCap, order, swp, downs, focusReq, midResize>>

vars == <<programVars, shutdownVars>>

\* the hook thread is in its message loop, where the hook callbacks are called
HookLoopRuns == hookPc = "loop" /\ exited = "no"

\* the main thread is in its message loop, where wndProc is called
MainLoopRuns == panicked = "none" /\ mainPc = "loop" /\ exited = "no"

\* ------------------------------------------------------------ arithmetic
\* Go integer division and float-to-int32 conversion truncate toward zero.
TruncDiv(a, b) == IF a >= 0 THEN a \div b ELSE -((-a) \div b)

\* ---------------------------------------------------------- pure helpers
getResizeZone(pt, r) ==
    LET w == r.Right - r.Left
        h == r.Bottom - r.Top
        col == IF pt.X > r.Left + TruncDiv(2 * w, 3) THEN 2
               ELSE IF pt.X > r.Left + TruncDiv(w, 3) THEN 1 ELSE 0
        row == IF pt.Y > r.Top + TruncDiv(2 * h, 3) THEN 2
               ELSE IF pt.Y > r.Top + TruncDiv(h, 3) THEN 1 ELSE 0
    IN row * 3 + col

\* initialAspectRatio is kept as the pair [w, h] it was computed from (w / h);
\* dividing by it is multiplying by h and dividing by w.
AspectOf(r) == [w |-> r.Right - r.Left, h |-> r.Bottom - r.Top]
DivByAspect(v, a) == TruncDiv(v * a.h, a.w)
MulByAspect(v, a) == TruncDiv(v * a.w, a.h)

respectAspectRatio == TRUE

calculateResizeCenter(drag, currentPt, aspect) ==
    LET dx == currentPt.X - drag.startPt.X
        dy == currentPt.Y - drag.startPt.Y
        origL == drag.startRect.Left
        origT == drag.startRect.Top
        origW == drag.startRect.Right - origL
        origH == drag.startRect.Bottom - origT
        minW == drag.knownMinW
        minH == drag.knownMinH
        dw == IF respectAspectRatio
              THEN (IF aspect.w >= aspect.h THEN dx * 2 ELSE MulByAspect(dy * 2, aspect))
              ELSE dx * 2
        dh == IF respectAspectRatio
              THEN (IF aspect.w >= aspect.h THEN DivByAspect(dx * 2, aspect) ELSE dy * 2)
              ELSE dy * 2
        w0 == origW + dw
        h0 == origH + dh
        w1 == IF w0 < minW THEN minW ELSE w0
        h1 == IF w0 < minW /\ respectAspectRatio /\ aspect.w > 0
              THEN DivByAspect(w1, aspect) ELSE h0
        h2 == IF h1 < minH THEN minH ELSE h1
        w2 == IF h1 < minH /\ respectAspectRatio /\ aspect.w > 0
              THEN MulByAspect(h2, aspect) ELSE w1
        w3 == IF w2 < minW THEN minW ELSE w2
        h3 == IF h2 < minH THEN minH ELSE h2
    IN [x |-> origL + TruncDiv(origW - w3, 2), y |-> origT + TruncDiv(origH - h3, 2),
        w |-> w3, h |-> h3]

\* mutant: a minimum is enforced on the edge opposite to the dragged one
calculateResizeEdge_ClampsAnchor(drag, zone, currentPt) ==
    LET dx == currentPt.X - drag.startPt.X
        dy == currentPt.Y - drag.startPt.Y
        origL == drag.startRect.Left
        origT == drag.startRect.Top
        origR == drag.startRect.Right
        origB == drag.startRect.Bottom
        minW == drag.knownMinW
        minH == drag.knownMinH
        left == zone \in {0, 3, 6}
        right == zone \in {2, 5, 8}
        top == zone \in {0, 1, 2}
        bottom == zone \in {6, 7, 8}
        newL0 == IF left THEN origL + dx ELSE origL
        newR0 == IF right THEN origR + dx ELSE origR
        newT0 == IF top THEN origT + dy ELSE origT
        newB0 == IF bottom THEN origB + dy ELSE origB
        newR == IF left /\ newR0 - newL0 < minW THEN newL0 + minW ELSE newR0
        newL == IF right /\ newR - newL0 < minW THEN newR - minW ELSE newL0
        newB == IF top /\ newB0 - newT0 < minH THEN newT0 + minH ELSE newB0
        newT == IF bottom /\ newB - newT0 < minH THEN newB - minH ELSE newT0
    IN [x |-> newL, y |-> newT, w |-> newR - newL, h |-> newB - newT]

calculateResizeEdge(drag, zone, currentPt) ==
    LET dx == currentPt.X - drag.startPt.X
        dy == currentPt.Y - drag.startPt.Y
        origL == drag.startRect.Left
        origT == drag.startRect.Top
        origR == drag.startRect.Right
        origB == drag.startRect.Bottom
        minW == drag.knownMinW
        minH == drag.knownMinH
        left == zone \in {0, 3, 6}
        right == zone \in {2, 5, 8}
        top == zone \in {0, 1, 2}
        bottom == zone \in {6, 7, 8}
        newL0 == IF left THEN origL + dx ELSE origL
        newR0 == IF right THEN origR + dx ELSE origR
        newT0 == IF top THEN origT + dy ELSE origT
        newB0 == IF bottom THEN origB + dy ELSE origB
        newL == IF left /\ newR0 - newL0 < minW THEN newR0 - minW ELSE newL0
        newR == IF right /\ newR0 - newL < minW THEN newL + minW ELSE newR0
        newT == IF top /\ newB0 - newT0 < minH THEN newB0 - minH ELSE newT0
        newB == IF bottom /\ newB0 - newT < minH THEN newT + minH ELSE newB0
    IN [x |-> newL, y |-> newT, w |-> newR - newL, h |-> newB - newT]

calculateResize(drag, zone, currentPt, aspect) ==
    IF zone = ZONE_CENTER THEN calculateResizeCenter(drag, currentPt, aspect)
    ELSE calculateResizeEdge(drag, zone, currentPt)

WindowMoveData(hwnd, x, y, w, h, insertAfter, flags) ==
    [Hwnd |-> hwnd, X |-> x, Y |-> y, W |-> w, H |-> h,
     InsertAfter |-> insertAfter, Flags |-> flags]

\* ------------------------------------------------ the hook thread's state
\* The globals a hook callback reads and writes, as one record, so that the
\* callbacks below can be written as the sequential code they are.
HookState ==
    [capturing |-> capturing, resizing |-> resizing, targetWnd |-> targetWnd,
     currentDrag |-> currentDrag, resizeZone |-> resizeZone,
     initialAspectRatio |-> initialAspectRatio, winGestureUsed |-> winGestureUsed,
     lastPostedX |-> lastPostedX, lastPostedY |-> lastPostedY,
     moveDataChan |-> moveDataChan, chanCap |-> chanCap,
     droppedMoveEvents |-> droppedMoveEvents,
     msgQueue |-> msgQueue, hookSend |-> Nil, panicked |-> "none",
     mouseCapture |-> mouseCapture, holdGesture |-> holdGesture, holdTap |-> holdTap,
     injected |-> injected, trayInfo |-> trayInfo, ret |-> "none", inBounds |-> TRUE]

\* procPostMessage.Call(trayIcon.HWnd, m, ...).  The model follows the message
\* queue up to MaxPosted waiting messages (inBounds).
PostMessage(s, m) ==
    IF Len(s.msgQueue) < MaxPosted THEN [s EXCEPT !.msgQueue = Append(@, m)]
    ELSE [s EXCEPT !.inBounds = FALSE]

\* procSendInput.Call(...) from thread `by`; a Shift tap sent while the user holds
\* Win falls within that Win-hold
SendInput(s, what, by, vk) ==
    [s EXCEPT !.injected = [what |-> what, by |-> by, vk |-> vk],
              !.holdTap = @ \/ physWin # NoKey]

injectShiftTapOnly(s, by) == SendInput(s, "ShiftTap", by, NoKey)

showTrayInfo(s) == [s EXCEPT !.trayInfo = TRUE]

\* the two ways a hook callback ends
Swallow(s) == [s EXCEPT !.ret = "swallow"]
CallNextHookEx(s) == [s EXCEPT !.ret = "pass"]
Panic(s, what) == [s EXCEPT !.panicked = what]

startManualDrag(s, rect, pt) ==
    [s EXCEPT !.mouseCapture = TRUE,
              !.currentDrag = [startPt |-> pt, startRect |-> rect,
                               knownMinW |-> 0, knownMinH |-> 0]]

startDrag(s, hwnd, rect, pt) ==
    IF hwnd \in ElevatedWnds THEN showTrayInfo(s)
    ELSE startManualDrag(s, rect, pt)

\* mutant: the soft reset ends the Win-hold's gesture too
softReset_ClearsGestureUsed(s, releaseCapture) ==
    [s EXCEPT !.capturing = FALSE, !.resizing = FALSE, !.targetWnd = 0,
              !.currentDrag = Nil, !.winGestureUsed = FALSE,
              !.mouseCapture = IF releaseCapture THEN FALSE ELSE @]

softReset(s, releaseCapture) ==
    [s EXCEPT !.capturing = FALSE, !.resizing = FALSE, !.targetWnd = 0,
              !.currentDrag = Nil,
              !.mouseCapture = IF releaseCapture THEN FALSE ELSE @]

hardReset(s, releaseCapture, by, winDown) ==
    LET s1 == IF s.winGestureUsed /\ winDown
              THEN [injectShiftTapOnly(s, by) EXCEPT !.winGestureUsed = FALSE]
              ELSE s
    IN softReset(s1, releaseCapture)

\* ------------------------------------------------------------- mouseProc
\* e: what the callback reads from the event and from the OS:
\*   pt (info.Pt), winDown/shiftDown/ctrlDown/altDown (keyDown), want
\*   (windowFromPoint(info.Pt)), rect (GetWindowRect of want), fgWnd
\*   (GetForegroundWindow), gate (time.Since(lastResize) >= 10ms), interval
\*   (now.Sub(lastMovePostedTime) >= MIN_MOVE_INTERVAL)

\* mutant: the target is never taken to be the foreground window
isWindowForeground_Never(hwnd, fgWnd) == FALSE

isWindowForeground(hwnd, fgWnd) == hwnd # 0 /\ fgWnd = hwnd

\* if !winGestureUsed { winGestureUsed = true; injectShiftTapOnly() }
GestureRecognised(s) ==
    LET s0 == [s EXCEPT !.holdGesture = @ \/ physWin # NoKey]
    IN IF ~s0.winGestureUsed
       THEN injectShiftTapOnly([s0 EXCEPT !.winGestureUsed = TRUE], "hook")
       ELSE s0

\* mutant: the command is enqueued and the worker is not woken
TryPush_NoWake(s, data) ==
    IF Len(s.moveDataChan) < s.chanCap
    THEN [s EXCEPT !.moveDataChan = Append(@, data)]
    ELSE [s EXCEPT !.droppedMoveEvents = @ + 1]

\* select { case moveDataChan <- data: PostMessage(...) default: droppedMoveEvents.Add(1) }
TryPush(s, data) ==
    IF Len(s.moveDataChan) < s.chanCap
    THEN PostMessage([s EXCEPT !.moveDataChan = Append(@, data)], WM_DO_SETWINDOWPOS)
    ELSE [s EXCEPT !.droppedMoveEvents = @ + 1]

\* moveDataChan <- data; PostMessage(...): the send waits while the channel is full
BlockingPush(s, data) ==
    IF Len(s.moveDataChan) < s.chanCap
    THEN PostMessage([s EXCEPT !.moveDataChan = Append(@, data)], WM_DO_SETWINDOWPOS)
    ELSE [s EXCEPT !.hookSend = data]

\* mutant: Shift, Ctrl and Alt are not looked at
mouseProc_LBUTTONDOWN_AnyMods(s, e) ==
    IF e.winDown THEN Swallow(GestureRecognised(s)) ELSE CallNextHookEx(s)

mouseProc_LBUTTONDOWN(s, e) ==
    IF e.winDown /\ ~e.shiftDown /\ ~e.altDown /\ ~e.ctrlDown
    THEN LET s1 == GestureRecognised(s)
         IN IF e.want = 0 THEN Swallow(s1)
            ELSE IF s1.capturing /\ s1.targetWnd = 0
                 THEN Panic(s1, "impossible state")
            ELSE IF s1.capturing /\ s1.targetWnd = e.want THEN Swallow(s1)
            ELSE LET s2 == IF s1.capturing THEN softReset(s1, TRUE) ELSE s1
                     s3 == startDrag([s2 EXCEPT !.targetWnd = e.want], e.want, e.rect, e.pt)
                     s4 == [s3 EXCEPT !.capturing = TRUE]
                     s5 == IF focusOnDrag /\ ~isWindowForeground(s4.targetWnd, e.fgWnd)
                           THEN PostMessage(s4, WM_FOCUS_TARGET_WINDOW_SOMEHOW)
                           ELSE s4
                 IN Swallow(s5)
    ELSE CallNextHookEx(s)

\* mutant: the window's top-left is put at the cursor
MoveCommand_AtCursor(s, pt) ==
    WindowMoveData(s.targetWnd, pt.X, pt.Y, 0, 0, 0,
                   {SWP_NOSIZE, SWP_NOACTIVATE, SWP_NOZORDER, SWP_ASYNCWINDOWPOS})

MoveCommand(s, pt) ==
    WindowMoveData(s.targetWnd,
                   s.currentDrag.startRect.Left + (pt.X - s.currentDrag.startPt.X),
                   s.currentDrag.startRect.Top + (pt.Y - s.currentDrag.startPt.Y),
                   0, 0, 0,
                   {SWP_NOSIZE, SWP_NOACTIVATE, SWP_NOZORDER, SWP_ASYNCWINDOWPOS})

\* the first 'if' of case WM_MOUSEMOVE, when Win is still down
MoveWhileCapturing(s, e) ==
    IF ~e.gate THEN s
    ELSE LET data == MoveCommand(s, e.pt)
             willPostMessage ==
                 ~ratelimitOnMove
                 \/ ((data.X # s.lastPostedX \/ data.Y # s.lastPostedY) /\ e.interval)
         IN IF ~willPostMessage THEN s
            ELSE LET s1 == TryPush(s, data)
                 IN IF ratelimitOnMove
                    THEN [s1 EXCEPT !.lastPostedX = data.X, !.lastPostedY = data.Y]
                    ELSE s1

ResizeCommand(s, pt) ==
    LET n == calculateResize(s.currentDrag, s.resizeZone, pt, s.initialAspectRatio)
    IN WindowMoveData(s.targetWnd, n.x, n.y, n.w, n.h, 0, {SWP_NOZORDER, SWP_NOACTIVATE})

\* the second 'if' of case WM_MOUSEMOVE
MoveWhileResizing(s, e) ==
    IF s.resizing /\ s.currentDrag # Nil /\ e.gate
    THEN BlockingPush(s, ResizeCommand(s, e.pt))
    ELSE s

mouseProc_MOUSEMOVE(s, e) ==
    IF s.capturing /\ s.currentDrag # Nil /\ ~e.winDown
    THEN CallNextHookEx(hardReset(s, TRUE, "hook", e.winDown))      \* break
    ELSE LET s1 == IF s.capturing /\ s.currentDrag # Nil THEN MoveWhileCapturing(s, e) ELSE s
             s2 == MoveWhileResizing(s1, e)
         IN IF s2.hookSend # Nil THEN s2 ELSE CallNextHookEx(s2)

mouseProc_LBUTTONUP(s) ==
    IF s.capturing /\ s.currentDrag # Nil THEN Swallow(softReset(s, TRUE))
    ELSE IF s.capturing \/ s.currentDrag # Nil THEN Panic(s, "race detected2")
    ELSE CallNextHookEx(s)

mouseProc_RBUTTONUP(s) ==
    IF s.resizing /\ s.currentDrag # Nil THEN Swallow(softReset(s, TRUE))
    ELSE IF s.resizing \/ s.currentDrag # Nil THEN Panic(s, "race detected1")
    ELSE CallNextHookEx(s)

mouseProc_RBUTTONDOWN(s, e) ==
    IF e.winDown /\ ~e.shiftDown /\ ~e.altDown /\ ~e.ctrlDown
    THEN LET s1 == GestureRecognised(s)
         IN IF s1.currentDrag # Nil THEN Swallow(s1)
            ELSE LET s2 == [s1 EXCEPT !.targetWnd = e.want]
                 IN IF e.want # 0
                    THEN Swallow([s2 EXCEPT
                             !.resizing = TRUE,
                             !.currentDrag = [startPt |-> e.pt, startRect |-> e.rect,
                                              knownMinW |-> minimumW, knownMinH |-> minimumH],
                             !.resizeZone = getResizeZone(e.pt, e.rect),
                             !.initialAspectRatio = AspectOf(e.rect),
                             !.mouseCapture = TRUE])
                    ELSE CallNextHookEx(s2)
    ELSE CallNextHookEx(s)

ZOrderCommand(e) ==
    IF ~e.shiftDown
    THEN WindowMoveData(e.want, 0, 0, 0, 0, HWND_BOTTOM, {SWP_NOMOVE, SWP_NOSIZE, SWP_NOACTIVATE})
    ELSE WindowMoveData(e.fgWnd, 0, 0, 0, 0, HWND_TOP, {SWP_NOMOVE, SWP_NOSIZE})

mouseProc_MBUTTONDOWN(s, e) ==
    IF e.winDown /\ ~e.ctrlDown /\ ~e.altDown
    THEN LET s1 == GestureRecognised(s)
             data == ZOrderCommand(e)
         IN Swallow(IF e.gate /\ data.Hwnd # 0 THEN TryPush(s1, data) ELSE s1)
    ELSE CallNextHookEx(s)

\* mutant: the injected flag is not looked at
FlaggedInjected_Never(flags) == FALSE

\* info.Flags&LLMHF_INJECTED != 0, k.Flags&LLKHF_INJECTED != 0; flags is the set
\* of flags the event carries
FlaggedInjected(flags) == "INJECTED" \in flags

\* mouseProc as a whole: the two early returns, then the switch on wParam
mouseProc(s, nCode, wParam, flags, e) ==
    IF nCode < 0 THEN CallNextHookEx(s)
    ELSE IF FlaggedInjected(flags) THEN CallNextHookEx(s)
    ELSE CASE wParam = "WM_LBUTTONDOWN" -> mouseProc_LBUTTONDOWN(s, e)
           [] wParam = "WM_MOUSEMOVE" -> mouseProc_MOUSEMOVE(s, e)
           [] wParam = "WM_LBUTTONUP" -> mouseProc_LBUTTONUP(s)
           [] wParam = "WM_RBUTTONUP" -> mouseProc_RBUTTONUP(s)
           [] wParam = "WM_RBUTTONDOWN" -> mouseProc_RBUTTONDOWN(s, e)
           [] wParam = "WM_MBUTTONDOWN" -> mouseProc_MBUTTONDOWN(s, e)
           [] OTHER -> CallNextHookEx(s)

\* ----------------------------------------------------------- keyboardProc
\* mutant: the Win-up is passed on although the hold was used for a gesture
keyboardProc_WinUp_AlwaysPass(s, vk) == CallNextHookEx(s)

\* mutant: the Win-up is swallowed whether or not a gesture used the hold
keyboardProc_WinUp_AlwaysSwallow(s, vk) ==
    Swallow(PostMessage([s EXCEPT !.winGestureUsed = FALSE], WM_INJECT_SEQUENCE(vk)))

keyboardProc_WinUp(s, vk) ==
    IF s.winGestureUsed
    THEN Swallow(PostMessage([s EXCEPT !.winGestureUsed = FALSE], WM_INJECT_SEQUENCE(vk)))
    ELSE CallNextHookEx(s)

\* mutant: the hook code is not looked at
keyboardProc_AnyCode(s, nCode, wParam, flags, vk) ==
    IF FlaggedInjected(flags) THEN CallNextHookEx(s)
    ELSE IF wParam \in {"WM_KEYUP", "WM_SYSKEYUP"} /\ vk \in WinKeys
         THEN keyboardProc_WinUp(s, vk)
    ELSE CallNextHookEx(s)

\* keyboardProc as a whole: the two early returns, then the Win-up case
keyboardProc(s, nCode, wParam, flags, vk) ==
    IF nCode < 0 THEN CallNextHookEx(s)
    ELSE IF FlaggedInjected(flags) THEN CallNextHookEx(s)
    ELSE IF wParam \in {"WM_KEYUP", "WM_SYSKEYUP"} /\ vk \in WinKeys
         THEN keyboardProc_WinUp(s, vk)
    ELSE CallNextHookEx(s)

\* ---------------------------------------------------------- environments
Mods == [shiftDown : BOOLEAN, ctrlDown : BOOLEAN, altDown : BOOLEAN]
NoMods == [shiftDown |-> FALSE, ctrlDown |-> FALSE, altDown |-> FALSE]
ShiftOnly == [NoMods EXCEPT !.shiftDown = TRUE]
CtrlOnly == [NoMods EXCEPT !.ctrlDown = TRUE]
AltOnly == [NoMods EXCEPT !.altDown = TRUE]

Messages == {"WM_DO_SETWINDOWPOS", "WM_FOCUS_TARGET_WINDOW_SOMEHOW", "WM_INJECT_SEQUENCE"}

\* the whole desktop, a main thread that keeps up with the input, each
\* callback's event and return value recorded
EnvDesktop ==
    [windows |-> Windows, points |-> Points, winKeys |-> WinKeys,
     mods |-> {NoMods, ShiftOnly, CtrlOnly, AltOnly}, prompt |-> Messages,
     history |-> {"lastEv", "ret"}]

\* one window, a main thread that may lag behind the hook
EnvQueue ==
    [windows |-> {1}, points |-> {Pt(100, 100)}, winKeys |-> {"VK_LWIN"},
     mods |-> {NoMods, ShiftOnly}, prompt |-> {}, history |-> {}]

\* both Win keys, a main thread that keeps up with the commands but may lag
\* with the injections, the Win-hold history recorded
EnvWinKey ==
    [windows |-> {1}, points |-> {Pt(100, 100)}, winKeys |-> WinKeys,
     mods |-> {NoMods, ShiftOnly}, prompt |-> {"WM_DO_SETWINDOWPOS", "WM_FOCUS_TARGET_WINDOW_SOMEHOW"},
     history |-> {"hold", "ret", "lastEv", "injected"}]

\* one window dragged between three cursor positions, a main thread that keeps
\* up with the input, the move gestures and the executed placements recorded
MovePoints == {Pt(100, 100), Pt(350, 350), Pt(120, 130)}

EnvMove ==
    [windows |-> {1}, points |-> MovePoints, winKeys |-> {"VK_LWIN"},
     mods |-> {NoMods}, prompt |-> Messages, history |-> {"move"}]

\* two windows either of which may be the foreground window, focus requests
\* that may wait in the message queue, the SetForegroundWindow calls recorded
EnvFocus ==
    [windows |-> {1, 2}, points |-> {Pt(100, 100)}, winKeys |-> {"VK_LWIN"},
     mods |-> {NoMods}, prompt |-> {"WM_DO_SETWINDOWPOS", "WM_INJECT_SEQUENCE"},
     history |-> {"focus"}]

\* every combination of Shift, Ctrl and Alt, events that carry the injected
\* flag or a negative hook code, what is injected and returned recorded
EnvPass ==
    [windows |-> {1}, points |-> {Pt(100, 100)}, winKeys |-> {"VK_LWIN"},
     mods |-> Mods, prompt |-> Messages, history |-> {"injected", "ret", "lastEv"}]

\* a large and a small window resized from three cursor positions (corner,
\* edge and centre zones), a main thread that keeps up with the input
EnvResize ==
    [windows |-> {1, 4}, points |-> {Pt(100, 100), Pt(350, 350), Pt(200, 200)},
     winKeys |-> {"VK_LWIN"}, mods |-> {NoMods}, prompt |-> Messages, history |-> {}]

\* an elevated window resized and moved, a main thread that keeps up with the
\* input, the notifications recorded
EnvTray ==
    [windows |-> {3}, points |-> Points, winKeys |-> {"VK_LWIN"},
     mods |-> {NoMods}, prompt |-> Messages, history |-> {"tray"}]

\* both Win keys, injection requests that may wait in the message queue while
\* more input arrives, the injections and their number recorded
EnvInject ==
    [windows |-> {1}, points |-> {Pt(100, 100)}, winKeys |-> WinKeys,
     mods |-> {NoMods}, prompt |-> {"WM_DO_SETWINDOWPOS", "WM_FOCUS_TARGET_WINDOW_SOMEHOW"},
     history |-> {"injected", "seq"}]

\* one window, input that arrives whatever the main thread is in the middle of
EnvRace ==
    [windows |-> {1}, points |-> {Pt(100, 100)}, winKeys |-> {"VK_LWIN"},
     mods |-> {NoMods}, prompt |-> {}, history |-> {}]

\* one window, a main thread that keeps up with the input, each thread's
\* accesses to the globals recorded
EnvAccess ==
    [windows |-> {1}, points |-> {Pt(100, 100)}, winKeys |-> {"VK_LWIN"},
     mods |-> {NoMods}, prompt |-> Messages, history |-> {"access"}]

\* one window, a main thread that keeps up with the input, until the program
\* shuts down
EnvShutdown ==
    [windows |-> {1}, points |-> {Pt(100, 100)}, winKeys |-> {"VK_LWIN"},
     mods |-> {NoMods}, prompt |-> Messages, history |-> {}]

\* one window dragged between two cursor positions, a main thread that may lag
\* behind the hook with the commands, the commands sent and handed over recorded
EnvOrder ==
    [windows |-> {1}, points |-> {Pt(100, 100), Pt(350, 350)}, winKeys |-> {"VK_LWIN"},
     mods |-> {NoMods},
     prompt |-> {"WM_FOCUS_TARGET_WINDOW_SOMEHOW", "WM_INJECT_SEQUENCE"},
     history |-> {"order"}]

\* one window, a main thread that may lag behind the hook with the commands,
\* the commands sent and handed over recorded, the calls of the Executor counted
EnvDrain ==
    [windows |-> {1}, points |-> {Pt(100, 100)}, winKeys |-> {"VK_LWIN"},
     mods |-> {NoMods},
     prompt |-> {"WM_FOCUS_TARGET_WINDOW_SOMEHOW", "WM_INJECT_SEQUENCE"},
     history |-> {"order", "handovers"}]

\* one window, a main thread that may lag behind the hook with the commands,
\* the calls of the Executor counted and its SetWindowPos calls recorded
EnvRate ==
    [windows |-> {1}, points |-> {Pt(100, 100)}, winKeys |-> {"VK_LWIN"},
     mods |-> {NoMods},
     prompt |-> {"WM_FOCUS_TARGET_WINDOW_SOMEHOW", "WM_INJECT_SEQUENCE"},
     history |-> {"handovers", "swp"}]

\* one window resized from a cursor position in each of the nine zones of its
\* rectangle, a main thread that keeps up with the input
ZonePoints == {Pt(x, y) : x \in {100, 200, 350}, y \in {100, 200, 350}}

EnvZones ==
    [windows |-> {1}, points |-> ZonePoints, winKeys |-> {"VK_LWIN"},
     mods |-> {NoMods}, prompt |-> Messages, history |-> {}]

\* two windows dragged between three cursor positions, with and without the
\* rate limit on moves, a main thread that keeps up with the input
EnvContent ==
    [windows |-> {1, 2}, points |-> MovePoints, winKeys |-> {"VK_LWIN"},
     mods |-> {NoMods}, prompt |-> Messages, history |-> {}]

\* one window, a main thread that keeps up with the input, what each callback
\* returned and which button-downs were swallowed recorded
EnvButtons ==
    [windows |-> {1}, points |-> {Pt(100, 100)}, winKeys |-> {"VK_LWIN"},
     mods |-> {NoMods}, prompt |-> Messages, history |-> {"ret", "buttons"}]

\* two windows, focus requests that may wait in the message queue while more
\* input arrives, the window of each request and the handle focused recorded
EnvFocusArg ==
    [windows |-> {1, 2}, points |-> {Pt(100, 100)}, winKeys |-> {"VK_LWIN"},
     mods |-> {NoMods}, prompt |-> {"WM_DO_SETWINDOWPOS", "WM_INJECT_SEQUENCE"},
     history |-> {"focusArg"}]

\* two windows resized between two cursor positions, a main thread that may
\* lag behind the hook with the commands
EnvStale ==
    [windows |-> {1, 2}, points |-> {Pt(100, 100), Pt(350, 350)}, winKeys |-> {"VK_LWIN"},
     mods |-> {NoMods},
     prompt |-> {"WM_FOCUS_TARGET_WINDOW_SOMEHOW", "WM_INJECT_SEQUENCE"},
     history |-> {}]

\* a history variable takes its new value where the environment records it
Recorded(E, name, new, old) == IF name \in E.history THEN new ELSE old

\* -------------------------------------------------------------- actions
InitCap(n) ==
    /\ capturing = FALSE /\ resizing = FALSE /\ targetWnd = 0 /\ currentDrag = Nil
    /\ resizeZone = 0 /\ initialAspectRatio = [w |-> 0, h |-> 1]
    /\ winGestureUsed = FALSE /\ lastPostedX = -1 /\ lastPostedY = -1
    /\ focusOnDrag = TRUE /\ ratelimitOnMove = FALSE
    /\ moveDataChan = <<>> /\ droppedMoveEvents = 0 /\ msgQueue = <<>>
    /\ hookSend = Nil /\ panicked = "none" /\ workerPc = "idle" /\ elapsed = TRUE
    /\ physWin = NoKey /\ asyncWin = {} /\ mouseCapture = FALSE /\ trayInfo = FALSE
    /\ holdGesture = FALSE /\ holdTap = FALSE
    /\ injected = [what |-> "none", by |-> "none", vk |-> NoKey]
    /\ lastEv = "none" /\ ret = "none"
    /\ lastPt = Nil /\ endedMove = Nil /\ placed = Nil
    /\ focusCall = [by |-> "none", target |-> 0]
    /\ deniedNotes = 0
    /\ injectSeq = 0
    /\ execData = Nil
    /\ access = {}
    /\ hookPc = "loop" /\ mainPc = "loop" /\ hooks = {"WH_MOUSE_LL", "WH_KEYBOARD_LL"}
    /\ acked = FALSE /\ quitPosted = {} /\ exited = "no"
    /\ logChan = "open" /\ closedSend = {}
    /\ chanCap = n
    /\ order = [enqueued |-> <<>>, handed |-> <<>>, behind |-> FALSE, count |-> 0]
    /\ swp = [calls |-> 0, last |-> Nil]
    /\ downs = {}
    /\ focusReq = [pending |-> <<>>, arg |-> Nil]
    /\ midResize = Nil

\* moveDataChan = make(chan WindowMoveData, 2048), ChanCap in the model
Init == InitCap(ChanCap)

\* the OS state a mouse callback reads
Event(pt, m, want, rect, fgWnd, interval) ==
    [pt |-> pt, winDown |-> asyncWin # {}, shiftDown |-> m.shiftDown,
     ctrlDown |-> m.ctrlDown, altDown |-> m.altDown, want |-> want, rect |-> rect,
     fgWnd |-> fgWnd, gate |-> elapsed, interval |-> interval]

NoRect == Rect(0, 0, 0, 0)

\* the main thread has handled the messages it handles promptly
Quiet(E) ==
    \/ E.prompt = {}
    \/ workerPc = "idle" /\ \A i \in 1..Len(msgQueue) : msgQueue[i].msg \notin E.prompt

\* the next input arrives
InputReady(E) == panicked = "none" /\ HookLoopRuns /\ midResize = Nil /\ Quiet(E)

\* the hook thread is inside no callback and has not panicked
HookReady(E) == hookSend = Nil /\ InputReady(E)

\* the callback that ends in state s has created a DragState
NewDrag(s) == s.currentDrag # Nil /\ s.currentDrag # currentDrag

\* history of the move gestures: the gesture an LMB-up has just ended (its
\* window, start cursor c0, start rectangle's top-left p0 and the last cursor
\* position c1 delivered), forgotten when a new DragState is created
EndedMove(s, ev) ==
    IF ev = "WM_LBUTTONUP" /\ capturing /\ currentDrag # Nil /\ s.ret = "swallow"
    THEN [Hwnd |-> targetWnd, c0 |-> currentDrag.startPt,
          p0 |-> Pt(currentDrag.startRect.Left, currentDrag.startRect.Top), c1 |-> lastPt]
    ELSE IF NewDrag(s) THEN Nil
    ELSE endedMove

\* the last cursor position a WM_MOUSEMOVE delivered since the DragState was
\* created
LastPt(s, ev, pt) ==
    IF ev = "WM_MOUSEMOVE" THEN pt
    ELSE IF NewDrag(s) THEN Nil
    ELSE lastPt

\* the gesture globals the hook thread writes in a callback that ends in state
\* s, and lastResize, which it reads on the way to every command it enqueues
GestureGlobals ==
    {"capturing", "resizing", "targetWnd", "currentDrag", "resizeZone", "winGestureUsed"}

GlobalOf(s, v) ==
    CASE v = "capturing" -> s.capturing
      [] v = "resizing" -> s.resizing
      [] v = "targetWnd" -> s.targetWnd
      [] v = "currentDrag" -> s.currentDrag
      [] v = "resizeZone" -> s.resizeZone
      [] v = "winGestureUsed" -> s.winGestureUsed

HookAccess(s) ==
    {<<"hook", v, "w">> : v \in {g \in GestureGlobals : GlobalOf(s, g) # GlobalOf(HookState, g)}}
    \cup (IF \/ s.moveDataChan # moveDataChan \/ s.hookSend # Nil
              \/ s.droppedMoveEvents # droppedMoveEvents
           THEN {<<"hook", "lastResize", "r">>} ELSE {})

\* history of the hand-over: the commands the hook thread has sent on
\* moveDataChan and the commands drainMoveChannel has handed to
\* handleActualMoveOrResize, oldest first, less what the two logs begin with in
\* common; behind tells that a command was handed while another one waited
\* behind it in the channel
RECURSIVE DropCommon(_, _)
DropCommon(sent, got) ==
    IF sent # <<>> /\ got # <<>> /\ Head(sent) = Head(got)
    THEN DropCommon(Tail(sent), Tail(got))
    ELSE [enqueued |-> sent, handed |-> got]

\* the commands the callback that ends in state s has sent on the channel
Sent(s) == SubSeq(s.moveDataChan, Len(moveDataChan) + 1, Len(s.moveDataChan))

Enqueued(s) == [order EXCEPT !.enqueued = @ \o Sent(s)]

Handed(data) ==
    LET logs == DropCommon(order.enqueued, Append(order.handed, data))
    IN [enqueued |-> logs.enqueued, handed |-> logs.handed,
        behind |-> order.behind \/ Len(moveDataChan) > 1, count |-> order.count]

\* the calls of handleActualMoveOrResize are counted modulo HandMod, which
\* tells apart as many of them as commands can wait in the channel
HandMod == chanCap + 1

Counted(E, o) ==
    IF "handovers" \in E.history THEN [o EXCEPT !.count = (@ + 1) % HandMod] ELSE o

\* history of the buttons: a button is in downs from a button-down that
\* mouseProc swallowed until its button-up or its next button-down
ButtonOf(ev) ==
    CASE ev \in {"WM_LBUTTONDOWN", "WM_LBUTTONUP"} -> {"L"}
      [] ev \in {"WM_RBUTTONDOWN", "WM_RBUTTONUP"} -> {"R"}
      [] OTHER -> {}

Downs(s, ev) ==
    IF ev \in {"WM_LBUTTONDOWN", "WM_RBUTTONDOWN"} /\ s.ret = "swallow"
    THEN downs \cup ButtonOf(ev)
    ELSE downs \ ButtonOf(ev)

\* history of the focus requests: the window each waiting
\* WM_FOCUS_TARGET_WINDOW_SOMEHOW was posted for (targetWnd at the post),
\* oldest first, and the handle the main thread last passed to forceForeground
FocusRequested(s) ==
    IF \E i \in (Len(msgQueue) + 1)..Len(s.msgQueue) :
           s.msgQueue[i] = WM_FOCUS_TARGET_WINDOW_SOMEHOW
    THEN [focusReq EXCEPT !.pending = Append(@, s.targetWnd)]
    ELSE focusReq

FocusHandled(target) ==
    [pending |-> IF focusReq.pending = <<>> THEN <<>> ELSE Tail(focusReq.pending),
     arg |-> target]

\* a hook callback for event ev at cursor position pt ends (or blocks) in state s
Commit(s, E, ev, pt) ==
    /\ s.inBounds /\ s.droppedMoveEvents <= MaxDropped
    /\ capturing' = s.capturing /\ resizing' = s.resizing /\ targetWnd' = s.targetWnd
    /\ currentDrag' = s.currentDrag /\ resizeZone' = s.resizeZone
    /\ initialAspectRatio' = s.initialAspectRatio
    /\ winGestureUsed' = s.winGestureUsed
    /\ lastPostedX' = s.lastPostedX /\ lastPostedY' = s.lastPostedY
    /\ moveDataChan' = s.moveDataChan /\ droppedMoveEvents' = s.droppedMoveEvents
    /\ msgQueue' = s.msgQueue /\ hookSend' = s.hookSend /\ panicked' = s.panicked
    /\ mouseCapture' = s.mouseCapture
    /\ trayInfo' = Recorded(E, "tray", s.trayInfo, trayInfo)
    /\ holdGesture' = Recorded(E, "hold", s.holdGesture, holdGesture)
    /\ holdTap' = Recorded(E, "hold", s.holdTap, holdTap)
    /\ injected' = Recorded(E, "injected", s.injected, injected)
    /\ lastEv' = Recorded(E, "lastEv", ev, lastEv)
    /\ ret' = Recorded(E, "ret", s.ret, ret)
    /\ endedMove' = Recorded(E, "move", EndedMove(s, ev), endedMove)
    /\ lastPt' = Recorded(E, "move", LastPt(s, ev, pt), lastPt)
    /\ placed' = Recorded(E, "move", IF NewDrag(s) THEN Nil ELSE placed, placed)
    /\ deniedNotes' = Recorded(E, "tray", IF NewDrag(s) THEN 0 ELSE deniedNotes, deniedNotes)
    /\ access' = Recorded(E, "access", access \cup HookAccess(s), access)
    /\ order' = Recorded(E, "order", Enqueued(s), order)
    /\ downs' = Recorded(E, "buttons", Downs(s, ev), downs)
    /\ focusReq' = Recorded(E, "focusArg", FocusRequested(s), focusReq)
    /\ midResize' = Nil
    /\ UNCHANGED <<focusOnDrag, ratelimitOnMove, workerPc, elapsed, focusCall, injectSeq,
                   execData, shutdownVars, chanCap, swp>>

LButtonDownAt(E, m, pt, want, rect, fgWnd) ==
    /\ HookReady(E)
    /\ Commit(mouseProc_LBUTTONDOWN(HookState, Event(pt, m, want, rect, fgWnd, TRUE)),
              E, "WM_LBUTTONDOWN", pt)
    /\ UNCHANGED <<physWin, asyncWin>>

LButtonDown(E) ==
    \E m \in E.mods, pt \in E.points :
      IF asyncWin # {} /\ m = NoMods
      THEN \E want \in {0} \cup E.windows, fgWnd \in {0} \cup E.windows :
             \E rect \in WindowRects(want) : LButtonDownAt(E, m, pt, want, rect, fgWnd)
      ELSE LButtonDownAt(E, m, pt, 0, NoRect, 0)

RButtonDownAt(E, m, pt, want, rect) ==
    /\ HookReady(E)
    /\ Commit(mouseProc_RBUTTONDOWN(HookState, Event(pt, m, want, rect, 0, TRUE)),
              E, "WM_RBUTTONDOWN", pt)
    /\ UNCHANGED <<physWin, asyncWin>>

RButtonDown(E) ==
    \E m \in E.mods, pt \in E.points :
      IF asyncWin # {} /\ m = NoMods
      THEN \E want \in {0} \cup E.windows :
             \E rect \in WindowRects(want) : RButtonDownAt(E, m, pt, want, rect)
      ELSE RButtonDownAt(E, m, pt, 0, NoRect)

\* hwnd: the window under the cursor (no Shift) or the foreground window (Shift)
MButtonDownAt(E, m, pt, hwnd) ==
    /\ HookReady(E)
    /\ Commit(mouseProc_MBUTTONDOWN(HookState, Event(pt, m, hwnd, NoRect, hwnd, TRUE)),
              E, "WM_MBUTTONDOWN", pt)
    /\ UNCHANGED <<physWin, asyncWin>>

MButtonDown(E) ==
    \E m \in E.mods, pt \in E.points :
      IF asyncWin # {} /\ ~m.ctrlDown /\ ~m.altDown
      THEN \E hwnd \in {0} \cup E.windows : MButtonDownAt(E, m, pt, hwnd)
      ELSE MButtonDownAt(E, m, pt, 0)

MouseMoveAt(E, pt, interval) ==
    /\ HookReady(E)
    /\ Commit(mouseProc_MOUSEMOVE(HookState, Event(pt, NoMods, 0, NoRect, 0, interval)),
              E, "WM_MOUSEMOVE", pt)
    /\ UNCHANGED <<physWin, asyncWin>>

MouseMove(E) ==
    \E pt \in E.points, interval \in (IF ratelimitOnMove THEN BOOLEAN ELSE {TRUE}) :
      MouseMoveAt(E, pt, interval)

LButtonUp(E) ==
    /\ HookReady(E)
    /\ Commit(mouseProc_LBUTTONUP(HookState), E, "WM_LBUTTONUP", lastPt)
    /\ UNCHANGED <<physWin, asyncWin>>

RButtonUp(E) ==
    /\ HookReady(E)
    /\ Commit(mouseProc_RBUTTONUP(HookState), E, "WM_RBUTTONUP", lastPt)
    /\ UNCHANGED <<physWin, asyncWin>>

\* case WM_MOUSEMOVE with no move in progress, the second 'if' up to the call
\* of calculateResize: the callback has read resizing, currentDrag and
\* resizeZone, and has not yet read targetWnd
MouseMove_Calculates(E) ==
    /\ HookReady(E) /\ ~capturing /\ resizing /\ currentDrag # Nil /\ elapsed
    /\ \E pt \in E.points :
         midResize' = [pt |-> pt,
                       n |-> calculateResize(currentDrag, resizeZone, pt,
                                             initialAspectRatio)]
    /\ UNCHANGED <<capturing, resizing, targetWnd, currentDrag, resizeZone,
                   initialAspectRatio, winGestureUsed, lastPostedX, lastPostedY,
                   focusOnDrag, ratelimitOnMove, moveDataChan, droppedMoveEvents,
                   msgQueue, hookSend, panicked, workerPc, elapsed, physWin, asyncWin,
                   mouseCapture, trayInfo, holdGesture, holdTap, injected, lastEv, ret,
                   lastPt, endedMove, placed, focusCall, deniedNotes, injectSeq,
                   execData, access, shutdownVars, chanCap, order, swp, downs, focusReq>>

\* the rest of that callback: the command is built from the rectangle computed
\* and from targetWnd as it is now, and sent
MouseMove_Sends(E) ==
    /\ midResize # Nil /\ panicked = "none" /\ HookLoopRuns
    /\ LET n == midResize.n
           data == WindowMoveData(targetWnd, n.x, n.y, n.w, n.h, 0,
                                  {SWP_NOZORDER, SWP_NOACTIVATE})
           s == BlockingPush(HookState, data)
       IN Commit(IF s.hookSend # Nil THEN s ELSE CallNextHookEx(s),
                 E, "WM_MOUSEMOVE", midResize.pt)
    /\ UNCHANGED <<physWin, asyncWin>>

\* the blocked send of the resize command goes through once the worker has
\* taken a command out; the callback then posts the wake and returns
HookSendCompletes(E) ==
    /\ hookSend # Nil /\ panicked = "none" /\ HookLoopRuns
    /\ Len(moveDataChan) < chanCap
    /\ LET s == CallNextHookEx(PostMessage(
                    [HookState EXCEPT !.moveDataChan = Append(@, hookSend)],
                    WM_DO_SETWINDOWPOS))
       IN Commit(s, E, "WM_MOUSEMOVE", lastPt)
    /\ UNCHANGED <<physWin, asyncWin>>

\* --- keyboard: the user presses / releases a Win key, or any other key
KbdWinDown(E) ==
    /\ HookReady(E) /\ physWin = NoKey
    /\ \E vk \in E.winKeys :
         /\ physWin' = vk /\ asyncWin' = asyncWin \cup {vk}
         /\ Commit([CallNextHookEx(HookState) EXCEPT !.holdGesture = FALSE, !.holdTap = FALSE],
                   E, "WM_KEYDOWN", lastPt)

KbdWinUp(E) ==
    /\ HookReady(E) /\ physWin # NoKey
    /\ LET s == keyboardProc_WinUp(HookState, physWin)
       IN /\ Commit(s, E, "WM_KEYUP", lastPt)
          /\ asyncWin' = IF s.ret = "swallow" THEN asyncWin ELSE asyncWin \ {physWin}
    /\ physWin' = NoKey

KbdOtherKey(E) ==
    /\ HookReady(E)
    /\ Commit(CallNextHookEx(HookState), E, "OtherKey", lastPt)
    /\ UNCHANGED <<physWin, asyncWin>>

\* --- events the hooks are to stay out of: synthetic input (SendInput of this
\* or any other program) and calls with a negative hook code
MouseMsgs == {"WM_LBUTTONDOWN", "WM_LBUTTONUP", "WM_RBUTTONDOWN", "WM_RBUTTONUP",
              "WM_MBUTTONDOWN", "WM_MOUSEMOVE"}
KeyMsgs == {"WM_KEYDOWN", "WM_KEYUP", "WM_SYSKEYDOWN", "WM_SYSKEYUP"}
Keys == WinKeys \cup {"VK_RSHIFT"}
HookCodes == {-1, 0}            \* nCode: negative, or HC_ACTION

MouseProcAt(E, nCode, wParam, flags, pt, want, rect) ==
    /\ HookReady(E)
    /\ Commit(mouseProc(HookState, nCode, wParam, flags,
                        Event(pt, NoMods, want, rect, want, TRUE)),
              E, (IF nCode < 0 THEN "nCode < 0: " ELSE "injected: ") \o wParam, pt)
    /\ UNCHANGED <<physWin, asyncWin>>

MouseInjected(E) ==
    \E wParam \in MouseMsgs, pt \in E.points, want \in E.windows :
      \E rect \in WindowRects(want) :
        MouseProcAt(E, 0, wParam, {"INJECTED"}, pt, want, rect)

MouseNegativeCode(E) ==
    \E wParam \in MouseMsgs, flags \in SUBSET {"INJECTED"}, pt \in E.points, want \in E.windows :
      \E rect \in WindowRects(want) :
        MouseProcAt(E, -1, wParam, flags, pt, want, rect)

KeyboardProcAt(E, nCode, wParam, flags, vk) ==
    /\ HookReady(E)
    /\ Commit(keyboardProc(HookState, nCode, wParam, flags, vk),
              E, (IF nCode < 0 THEN "nCode < 0: " ELSE "injected: ") \o wParam \o " " \o vk,
              lastPt)
    /\ UNCHANGED <<physWin, asyncWin>>

KbdInjected(E) ==
    \E wParam \in KeyMsgs, vk \in Keys : KeyboardProcAt(E, 0, wParam, {"INJECTED"}, vk)

KbdNegativeCode(E) ==
    \E wParam \in KeyMsgs, flags \in SUBSET {"INJECTED"}, vk \in Keys :
      KeyboardProcAt(E, -1, wParam, flags, vk)

\* --- key transitions that are not delivered to the hooks (session locked)
LockedWinDown(E) ==
    /\ InputReady(E) /\ physWin = NoKey
    /\ \E vk \in E.winKeys : physWin' = vk /\ asyncWin' = asyncWin \cup {vk}
    /\ holdGesture' = Recorded(E, "hold", FALSE, holdGesture)
    /\ holdTap' = Recorded(E, "hold", FALSE, holdTap)
    /\ UNCHANGED <<capturing, resizing, targetWnd, currentDrag, resizeZone,
                   initialAspectRatio, winGestureUsed, lastPostedX, lastPostedY,
                   focusOnDrag, ratelimitOnMove, moveDataChan, droppedMoveEvents,
                   msgQueue, hookSend, panicked, workerPc, elapsed, mouseCapture,
                   trayInfo, injected, lastEv, ret, lastPt, endedMove, placed,
                   focusCall,
                   deniedNotes,
                   injectSeq,
                   execData,
                   access, shutdownVars, chanCap, order, swp, downs, focusReq, midResize>>

LockedWinUp(E) ==
    /\ InputReady(E) /\ physWin # NoKey
    /\ physWin' = NoKey /\ asyncWin' = asyncWin \ {physWin}
    /\ UNCHANGED <<capturing, resizing, targetWnd, currentDrag, resizeZone,
                   initialAspectRatio, winGestureUsed, lastPostedX, lastPostedY,
                   focusOnDrag, ratelimitOnMove, moveDataChan, droppedMoveEvents,
                   msgQueue, hookSend, panicked, workerPc, elapsed, mouseCapture,
                   trayInfo, holdGesture, holdTap, injected, lastEv, ret, lastPt, endedMove,
                   placed, focusCall, deniedNotes, injectSeq, execData, access, shutdownVars, chanCap, order, swp, downs, focusReq, midResize>>

\* ------------------------------------------------- main thread (worker)
\* what the main thread's state is besides the hook's record
WorkerFrame == <<capturing, resizing, targetWnd, resizeZone, initialAspectRatio,
                 winGestureUsed, lastPostedX, lastPostedY, focusOnDrag, ratelimitOnMove,
                 hookSend, panicked, physWin, mouseCapture, holdGesture, lastEv, ret,
                 lastPt, endedMove>>

\* the minimum size the window manager enforces for a window
TrueMinW(hwnd) == IF hwnd = 1 THEN 350 ELSE 0
TrueMinH(hwnd) == IF hwnd = 1 THEN 320 ELSE 0

\* SetWindowPos on the window of a higher-integrity process is refused with
\* ERROR_ACCESS_DENIED; any call can fail for another reason (window gone)
SetWindowPosOutcomes(hwnd) == IF hwnd \in ElevatedWnds THEN {"denied"} ELSE {"ok", "failed"}

\* case WM_DO_SETWINDOWPOS: drainMoveChannel()
WndProc_DoSetWindowPos ==
    /\ MainLoopRuns /\ workerPc = "idle"
    /\ msgQueue # <<>> /\ Head(msgQueue).msg = "WM_DO_SETWINDOWPOS"
    /\ msgQueue' = Tail(msgQueue) /\ workerPc' = "drain"
    /\ UNCHANGED <<WorkerFrame, currentDrag, moveDataChan, droppedMoveEvents, elapsed,
                   asyncWin, trayInfo, holdTap, injected, placed, focusCall, deniedNotes,
                   injectSeq,
                   execData,
                   access, shutdownVars, chanCap, order, swp, downs, focusReq, midResize>>

\* the anti-slide check of handleActualMoveOrResize: learn the minimum the OS
\* clamped to; drag is currentDrag, actual the size GetWindowRect reports
LearnMinimums(drag, data, actualW, actualH) ==
    [drag EXCEPT
       !.knownMinW = IF actualW > data.W /\ actualW > @ THEN actualW ELSE @,
       !.knownMinH = IF actualH > data.H /\ actualH > @ THEN actualH ELSE @]

ActualSize(requested, trueMin) == IF requested < trueMin THEN trueMin ELSE requested

\* what a SetWindowPos call asks for the window's top-left
Placement(data) ==
    IF SWP_NOMOVE \in data.Flags THEN placed
    ELSE [Hwnd |-> data.Hwnd, X |-> data.X, Y |-> data.Y]

\* the notifications counted after SetWindowPos for a move or resize command
\* ended with outcome o: showTrayInfo on ERROR_ACCESS_DENIED
Notified(data, o) ==
    IF o = "denied" /\ SWP_NOMOVE \notin data.Flags THEN deniedNotes + 1 ELSE deniedNotes

\* the globals handleActualMoveOrResize reads and writes on the main thread:
\* lastResize for the rate limit and in its defer, currentDrag for the nil
\* check, then resizing, and the DragState's fields if it learns a minimum
MainReads(globals) == {<<"main", v, "r">> : v \in globals}
MainWrites(globals) == {<<"main", v, "w">> : v \in globals}

ExecutorAccess(data, o, drag) ==
    MainReads({"lastResize"}) \cup MainWrites({"lastResize"})
    \cup (IF o = "ok" /\ (data.W # 0 \/ data.H # 0)
          THEN MainReads({"currentDrag"}) ELSE {})
    \cup (IF o = "ok" /\ (data.W # 0 \/ data.H # 0) /\ currentDrag # Nil
          THEN MainReads({"resizing"}) ELSE {})
    \cup (IF drag # currentDrag THEN MainWrites({"currentDrag"}) ELSE {})

\* if time.Since(lastResize) < 10ms { droppedMoveEvents.Add(1); return }
\* mutant: no command is too early
RateLimited_Never == FALSE

RateLimited == ~elapsed

\* history of procSetWindowPos.Call in handleActualMoveOrResize: the calls are
\* counted modulo CallMod, the last one's window and rectangle are kept
CallMod == 3

SetWindowPos(h, data) ==
    [calls |-> (h.calls + 1) % CallMod,
     last |-> [Hwnd |-> data.Hwnd, X |-> data.X, Y |-> data.Y, W |-> data.W, H |-> data.H]]

\* if clamped { GetCursorPos(&pt); nx, ny, nw, nh = calculateResize(currentDrag,
\* resizeZone, pt); SetWindowPos(target, ..., nx, ny, nw, nh, data.Flags) }:
\* the corrective call, made if a minimum was learned (drag became learned)
Corrected(data, drag, pt) ==
    LET n == calculateResize(drag, resizeZone, pt, initialAspectRatio)
    IN [data EXCEPT !.X = n.x, !.Y = n.y, !.W = n.w, !.H = n.h]

AntiSlide(h, data, drag, learned, pt) ==
    IF learned # drag THEN SetWindowPos(h, Corrected(data, learned, pt)) ELSE h

\* case data := <-moveDataChan: the oldest command leaves the channel
\* mutant: the newest command is received
Receive_Newest(ch) == [data |-> ch[Len(ch)], rest |-> SubSeq(ch, 1, Len(ch) - 1)]

Receive(ch) == [data |-> Head(ch), rest |-> Tail(ch)]

\* one turn of the loop of drainMoveChannel, with handleActualMoveOrResize
DrainMoveChannel_Step(E) ==
    /\ MainLoopRuns /\ workerPc = "drain" /\ moveDataChan # <<>>
    /\ moveDataChan' = Receive(moveDataChan).rest
    /\ LET data == Receive(moveDataChan).data
       IN IF RateLimited
          THEN /\ droppedMoveEvents < MaxDropped
               /\ droppedMoveEvents' = droppedMoveEvents + 1
               /\ access' = Recorded(E, "access", access \cup MainReads({"lastResize"}), access)
               /\ UNCHANGED <<currentDrag, elapsed, trayInfo, placed, deniedNotes, swp>>
          ELSE /\ elapsed' = FALSE
               /\ UNCHANGED droppedMoveEvents
               /\ placed' = Recorded(E, "move", Placement(data), placed)
               /\ \E o \in SetWindowPosOutcomes(data.Hwnd) :
                    /\ trayInfo' = Recorded(E, "tray", trayInfo \/ o = "denied", trayInfo)
                    /\ deniedNotes' = Recorded(E, "tray", Notified(data, o), deniedNotes)
                    /\ deniedNotes' <= MaxDenied
                    /\ IF o = "ok" /\ (data.W # 0 \/ data.H # 0) /\ currentDrag # Nil
                       THEN \E rectOk \in BOOLEAN :
                              currentDrag' =
                                IF rectOk
                                THEN LearnMinimums(currentDrag, data,
                                                   ActualSize(data.W, TrueMinW(data.Hwnd)),
                                                   ActualSize(data.H, TrueMinH(data.Hwnd)))
                                ELSE currentDrag
                       ELSE UNCHANGED currentDrag
                    /\ \E pt \in E.points :
                         swp' = Recorded(E, "swp",
                                         AntiSlide(SetWindowPos(swp, data), data,
                                                   currentDrag, currentDrag', pt),
                                         swp)
                    /\ access' = Recorded(E, "access",
                                          access \cup ExecutorAccess(data, o, currentDrag'),
                                          access)
    /\ order' = Counted(E, Recorded(E, "order", Handed(Receive(moveDataChan).data), order))
    /\ UNCHANGED <<WorkerFrame, msgQueue, workerPc, asyncWin, holdTap, injected, focusCall,
                   injectSeq, execData, shutdownVars, chanCap, downs, focusReq, midResize>>

\* handleActualMoveOrResize in two steps, for a resize command that gets as far
\* as the anti-slide check: the rate limit, SetWindowPos and the test
\* currentDrag != nil, which passes ...
Executor_NilCheck(E) ==
    /\ MainLoopRuns /\ workerPc = "drain" /\ moveDataChan # <<>> /\ elapsed
    /\ LET data == Receive(moveDataChan).data
       IN /\ "ok" \in SetWindowPosOutcomes(data.Hwnd)
          /\ data.W # 0 \/ data.H # 0
          /\ currentDrag # Nil
          /\ execData' = data
          /\ placed' = Recorded(E, "move", Placement(data), placed)
          /\ swp' = Recorded(E, "swp", SetWindowPos(swp, data), swp)
    /\ moveDataChan' = Receive(moveDataChan).rest /\ workerPc' = "antislide"
    /\ order' = Counted(E, Recorded(E, "order", Handed(Receive(moveDataChan).data), order))
    /\ access' = Recorded(E, "access",
                          access \cup MainReads({"lastResize", "currentDrag"}), access)
    /\ UNCHANGED <<WorkerFrame, currentDrag, droppedMoveEvents, msgQueue, elapsed, asyncWin,
                   trayInfo, holdTap, injected, focusCall, deniedNotes, injectSeq,
                   shutdownVars, chanCap, downs, focusReq, midResize>>

\* ... and, after GetWindowRect, the reads and writes of currentDrag.knownMinW,
\* knownMinH and startRect, then the deferred lastResize = time.Now(). The
\* hook thread may have set currentDrag to nil meanwhile; nothing orders the
\* two threads' accesses, so the reads find either the nil (a nil-pointer
\* panic on the main thread) or the DragState the nil check saw.
NilDereference == "nil pointer dereference"

Executor_AntiSlide(E) ==
    /\ MainLoopRuns /\ workerPc = "antislide"
    /\ \E rectOk \in BOOLEAN :
         IF ~rectOk THEN UNCHANGED <<currentDrag, panicked, swp>>
         ELSE IF currentDrag = Nil
         THEN UNCHANGED <<currentDrag, swp>> /\ panicked' \in {NilDereference, "none"}
         ELSE /\ currentDrag' = LearnMinimums(currentDrag, execData,
                                              ActualSize(execData.W, TrueMinW(execData.Hwnd)),
                                              ActualSize(execData.H, TrueMinH(execData.Hwnd)))
              /\ \E pt \in E.points :
                   swp' = Recorded(E, "swp",
                                   AntiSlide(swp, execData, currentDrag, currentDrag', pt),
                                   swp)
              /\ UNCHANGED panicked
    /\ elapsed' = FALSE /\ execData' = Nil /\ workerPc' = "drain"
    /\ access' = Recorded(E, "access",
                          access \cup MainReads({"resizing", "currentDrag"})
                                 \cup MainWrites({"lastResize"})
                                 \cup (IF currentDrag' # currentDrag
                                       THEN MainWrites({"currentDrag"}) ELSE {}),
                          access)
    /\ UNCHANGED <<capturing, resizing, targetWnd, resizeZone, initialAspectRatio,
                   winGestureUsed, lastPostedX, lastPostedY, focusOnDrag, ratelimitOnMove,
                   hookSend, physWin, mouseCapture, holdGesture, lastEv, ret, lastPt,
                   endedMove, moveDataChan, droppedMoveEvents, msgQueue, asyncWin, trayInfo,
                   holdTap, injected, placed, focusCall, deniedNotes, injectSeq,
                   shutdownVars, chanCap, order, downs, focusReq, midResize>>

\* default: return  (channel empty)
\* mutant: the loop returns after the commands it has handled, without a look
\* at the channel
DrainMoveChannel_Return_Unseen ==
    /\ MainLoopRuns /\ workerPc = "drain"
    /\ workerPc' = "idle"
    /\ UNCHANGED <<WorkerFrame, currentDrag, moveDataChan, droppedMoveEvents, msgQueue,
                   elapsed, asyncWin, trayInfo, holdTap, injected, placed, focusCall,
                   deniedNotes, injectSeq, execData, access, shutdownVars, chanCap, order, swp, downs, focusReq, midResize>>

DrainMoveChannel_Return ==
    /\ MainLoopRuns /\ workerPc = "drain" /\ moveDataChan = <<>>
    /\ workerPc' = "idle"
    /\ UNCHANGED <<WorkerFrame, currentDrag, moveDataChan, droppedMoveEvents, msgQueue,
                   elapsed, asyncWin, trayInfo, holdTap, injected, placed, focusCall,
                   deniedNotes, injectSeq, execData, access, shutdownVars, chanCap, order, swp, downs, focusReq, midResize>>

\* the handled WM_INJECT_SEQUENCE messages are counted modulo SeqMod, which
\* tells apart as many of them as can wait in the message queue
SeqMod == MaxPosted + 1

\* case WM_INJECT_SEQUENCE: injectShiftTapThenWinUp(uint16(wParam))
\* mutant: the Shift tap is injected without the Win-up
injectShiftTapThenWinUp_NoWinUp(s, vk) == SendInput(s, "ShiftTap", "worker", vk)

injectShiftTapThenWinUp(s, vk) == SendInput(s, "ShiftTapThenWinUp", "worker", vk)

WndProc_InjectSequence(E) ==
    /\ MainLoopRuns /\ workerPc = "idle"
    /\ msgQueue # <<>> /\ Head(msgQueue).msg = "WM_INJECT_SEQUENCE"
    /\ LET vk == Head(msgQueue).wParam
           s == injectShiftTapThenWinUp(HookState, vk)
       IN /\ injected' = Recorded(E, "injected", s.injected, injected)
          /\ holdTap' = Recorded(E, "hold", s.holdTap, holdTap)
          /\ asyncWin' = asyncWin \ {vk}
    /\ injectSeq' = Recorded(E, "seq", (injectSeq + 1) % SeqMod, injectSeq)
    /\ msgQueue' = Tail(msgQueue)
    /\ UNCHANGED <<WorkerFrame, currentDrag, moveDataChan, droppedMoveEvents, workerPc,
                   elapsed, trayInfo, placed, focusCall, deniedNotes, execData, access, shutdownVars, chanCap, order, swp, downs, focusReq, midResize>>

\* the tray menu setting "fall back to an injected LMB click", at its default
doLMBClick2FocusAsFallback == FALSE

injectLMBClick(s) == SendInput(s, "LMBClick", "worker", NoKey)

\* forceForeground(target) with fgWnd the foreground window it finds and ok the
\* outcome of AttachThreadInput + SetForegroundWindow: the calls it makes and
\* its result
forceForeground(target, fgWnd, ok) ==
    IF target = 0 THEN [call |-> FALSE, result |-> FALSE]
    ELSE IF isWindowForeground(target, fgWnd) THEN [call |-> FALSE, result |-> TRUE]
    ELSE [call |-> TRUE, result |-> ok]

\* case WM_FOCUS_TARGET_WINDOW_SOMEHOW: forceForeground(targetWnd), and the
\* injected click if that fails and the fallback is enabled
WndProc_FocusTargetWindow(E) ==
    /\ MainLoopRuns /\ workerPc = "idle"
    /\ msgQueue # <<>> /\ Head(msgQueue).msg = "WM_FOCUS_TARGET_WINDOW_SOMEHOW"
    /\ msgQueue' = Tail(msgQueue)
    /\ \E fgWnd \in {0} \cup E.windows, ok \in BOOLEAN :
         LET f == forceForeground(targetWnd, fgWnd, ok)
             s == IF ~f.result /\ doLMBClick2FocusAsFallback
                  THEN injectLMBClick(HookState) ELSE HookState
         IN /\ focusCall' = Recorded(E, "focus",
                                     IF f.call THEN [by |-> "worker", target |-> targetWnd]
                                     ELSE focusCall, focusCall)
            /\ injected' = Recorded(E, "injected", s.injected, injected)
    /\ access' = Recorded(E, "access", access \cup MainReads({"targetWnd"}), access)
    /\ focusReq' = Recorded(E, "focusArg", FocusHandled(targetWnd), focusReq)
    /\ UNCHANGED <<WorkerFrame, currentDrag, moveDataChan, droppedMoveEvents, workerPc,
                   elapsed, asyncWin, trayInfo, holdTap, placed, deniedNotes, injectSeq,
                   execData, shutdownVars, chanCap, order, swp, downs, midResize>>

\* case MENU_RATELIMIT_MOVES: ratelimitOnMove = !ratelimitOnMove, and the last
\* posted position is forgotten when the rate limit is turned off
Menu_ToggleRatelimitOnMove ==
    /\ MainLoopRuns /\ workerPc = "idle"
    /\ ratelimitOnMove' = ~ratelimitOnMove
    /\ lastPostedX' = IF ratelimitOnMove THEN -1 ELSE lastPostedX
    /\ lastPostedY' = IF ratelimitOnMove THEN -1 ELSE lastPostedY
    /\ UNCHANGED <<capturing, resizing, targetWnd, currentDrag, resizeZone,
                   initialAspectRatio, winGestureUsed, focusOnDrag,
                   moveDataChan, droppedMoveEvents, msgQueue, hookSend,
                   panicked, workerPc, elapsed, physWin, asyncWin, mouseCapture, trayInfo,
                   holdGesture, holdTap, injected, lastEv, ret, lastPt, endedMove, placed,
                   focusCall, deniedNotes, injectSeq, execData,
                   access, shutdownVars, chanCap, order, swp, downs, focusReq, midResize>>

\* the tray menu's "focus the dragged window" item: focusOnDrag = !focusOnDrag
Menu_ToggleFocusOnDrag ==
    /\ MainLoopRuns /\ workerPc = "idle"
    /\ focusOnDrag' = ~focusOnDrag
    /\ UNCHANGED <<capturing, resizing, targetWnd, currentDrag, resizeZone,
                   initialAspectRatio, winGestureUsed, lastPostedX, lastPostedY,
                   ratelimitOnMove, moveDataChan, droppedMoveEvents, msgQueue, hookSend,
                   panicked, workerPc, elapsed, physWin, asyncWin, mouseCapture, trayInfo,
                   holdGesture, holdTap, injected, lastEv, ret, lastPt, endedMove, placed,
                   focusCall,
                   deniedNotes,
                   injectSeq,
                   execData,
                   access, shutdownVars, chanCap, order, swp, downs, focusReq, midResize>>

\* 10 ms pass since lastResize
Tick ==
    /\ panicked = "none" /\ ~elapsed
    /\ elapsed' = TRUE
    /\ UNCHANGED <<WorkerFrame, currentDrag, moveDataChan, droppedMoveEvents, msgQueue,
                   workerPc, asyncWin, trayInfo, holdTap, injected, placed,
                   focusCall,
                   deniedNotes,
                   injectSeq,
                   execData,
                   access, shutdownVars, chanCap, order, swp, downs, focusReq, midResize>>

\* ------------------------------------------------------------- shutdown
\* logf ends in select { case logChan <- finalMsg: ... default: ... }: on a
\* closed channel the send case is chosen and panics
logf(thread) == IF logChan = "closed" THEN closedSend \cup {thread} ELSE closedSend

\* the process after a logf call of hookWorker: the panic of a send on the
\* closed channel unwinds to the panic bridge and to secondary_defer, which
\* both recover and call logf again, so the panic leaves the goroutine and
\* the runtime ends the process
LogfExit == IF logChan = "closed" THEN "panic" ELSE exited

\* a panic in a hook callback unwinds hookWorker: its deferred functions run
\* last registered first, so both hooks are unhooked, then the panic bridge
\* recovers, stores the payload, posts WM_QUIT to the main thread (and
\* WM_CLOSE to its window) and waits in the watchdog select
Hook_PanicUnwinds ==
    /\ hookPc = "loop" /\ exited = "no"
    /\ panicked \notin {"none", NilDereference}
    /\ hooks' = {} /\ quitPosted' = quitPosted \cup {"main"} /\ hookPc' = "watchdog"
    /\ closedSend' = logf("hook") /\ exited' = LogfExit
    /\ UNCHANGED <<programVars, mainPc, acked, logChan>>

\* case <-mainAcknowledgedShutdown: select {}
Hook_Acknowledged ==
    /\ hookPc = "watchdog" /\ exited = "no" /\ acked
    /\ hookPc' = "acked"
    /\ closedSend' = logf("hook") /\ exited' = LogfExit
    /\ UNCHANGED <<programVars, mainPc, hooks, acked, quitPosted, logChan>>

\* case <-time.After(2s): the select ends, the if-block ends, and the deferred
\* function goes on to its last statement, select {}
Hook_WatchdogTimeout ==
    /\ hookPc = "watchdog" /\ exited = "no"
    /\ hookPc' = "parked"
    /\ closedSend' = logf("hook") /\ exited' = LogfExit
    /\ UNCHANGED <<programVars, mainPc, hooks, acked, quitPosted, logChan>>

\* GetMessage returns 0 for WM_QUIT: the loop breaks, hookWorker returns, the
\* deferred functions unhook both hooks and the bridge, with nothing to
\* recover, ends in select {}
Hook_Quit ==
    /\ hookPc = "loop" /\ exited = "no" /\ panicked = "none" /\ hookSend = Nil
    /\ midResize = Nil
    /\ "hook" \in quitPosted
    /\ hooks' = {} /\ hookPc' = "parked"
    /\ closedSend' = logf("hook") /\ exited' = LogfExit
    /\ UNCHANGED <<programVars, mainPc, acked, quitPosted, logChan>>

\* wndProc calls exit(0) (tray menu Exit), exitf(20) (WM_ENDSESSION) or
\* exitf(128) (WM_EXIT_VIA_CTRL_C): a panic that unwinds main to primary_defer
Main_Exitf ==
    /\ MainLoopRuns /\ workerPc = "idle"
    /\ mainPc' = "primary_defer"
    /\ UNCHANGED <<programVars, hookPc, hooks, acked, quitPosted, exited, logChan, closedSend>>

\* GetMessage returns 0 for the WM_QUIT the panic bridge posted: the loop
\* breaks and runApplication re-raises the hook thread's panic
Main_Quit ==
    /\ mainPc = "loop" /\ exited = "no" /\ workerPc = "idle"
    /\ "main" \in quitPosted
    /\ mainPc' = "primary_defer"
    /\ UNCHANGED <<programVars, hookPc, hooks, acked, quitPosted, exited, logChan, closedSend>>

\* deinit: if deinitThreadId == hookThreadId { UnhookWindowsHookEx ... }
\* mutant: deinit unhooks on whichever thread it runs
deinit_Unhooks_AnyThread(thread) == TRUE

deinit_Unhooks(thread) == thread = "hook"

\* primary_defer up to the end of deinit: close(mainAcknowledgedShutdown),
\* hardReset(false), WM_QUIT posted to the hook thread; deinit unhooks nothing
\* on this thread (deinitThreadId # hookThreadId)
Main_PrimaryDefer(E) ==
    /\ mainPc = "primary_defer" /\ exited = "no"
    /\ acked' = TRUE /\ quitPosted' = quitPosted \cup {"hook"} /\ mainPc' = "deinit done"
    /\ hooks' = IF deinit_Unhooks("main") THEN {} ELSE hooks
    /\ LET s == hardReset(HookState, FALSE, "main", asyncWin # {})
       IN /\ capturing' = s.capturing /\ resizing' = s.resizing /\ targetWnd' = s.targetWnd
          /\ currentDrag' = s.currentDrag /\ winGestureUsed' = s.winGestureUsed
          /\ mouseCapture' = s.mouseCapture
          /\ injected' = Recorded(E, "injected", s.injected, injected)
          /\ holdTap' = Recorded(E, "hold", s.holdTap, holdTap)
          /\ access' = Recorded(E, "access",
                                access \cup MainReads({"winGestureUsed"})
                                       \cup MainWrites({"capturing", "resizing", "targetWnd",
                                                        "currentDrag"}),
                                access)
    /\ UNCHANGED <<resizeZone, initialAspectRatio, lastPostedX, lastPostedY, focusOnDrag,
                   ratelimitOnMove, moveDataChan, droppedMoveEvents, msgQueue, hookSend,
                   panicked, workerPc, elapsed, physWin, asyncWin, trayInfo, holdGesture,
                   lastEv, ret, lastPt, endedMove, placed, focusCall, deniedNotes, injectSeq,
                   execData, chanCap, order, swp, downs, focusReq, midResize, hookPc, exited,
                   logChan, closedSend>>

\* primary_defer after deinit: its last logf calls, then closeAndFlushLog
\* closes logChan and waits for logWorkerDone
Main_CloseLog ==
    /\ mainPc = "deinit done" /\ exited = "no"
    /\ closedSend' = logf("main") /\ logChan' = "closed" /\ mainPc' = "flushing"
    /\ UNCHANGED <<programVars, hookPc, hooks, acked, quitPosted, exited>>

\* logWorker has drained the channel and closed logWorkerDone:
\* closeAndFlushLog returns and primary_defer calls os.Exit(currentExitCode)
Main_OsExit ==
    /\ mainPc = "flushing" /\ exited = "no"
    /\ exited' = "primary_defer" /\ mainPc' = "exited"
    /\ UNCHANGED <<programVars, hookPc, hooks, acked, quitPosted, logChan, closedSend>>

Next(E) ==
    \/ LButtonDown(E) \/ LButtonUp(E) \/ RButtonDown(E) \/ RButtonUp(E)
    \/ MButtonDown(E) \/ MouseMove(E) \/ HookSendCompletes(E)
    \/ KbdWinDown(E) \/ KbdWinUp(E) \/ KbdOtherKey(E)
    \/ LockedWinDown(E) \/ LockedWinUp(E)
    \/ WndProc_DoSetWindowPos \/ DrainMoveChannel_Step(E) \/ DrainMoveChannel_Return
    \/ WndProc_InjectSequence(E) \/ WndProc_FocusTargetWindow(E)
    \/ Tick

\* the gesture state machine on the whole desktop
Spec == Init /\ [][Next(EnvDesktop)]_vars

\* the command queue between the hook and a main thread that lags
SpecQueue == Init /\ [][Next(EnvQueue)]_vars

\* the Win key: holds, gestures, swallowed releases and the injected sequences
SpecWinKey == Init /\ [][Next(EnvWinKey)]_vars

\* the main thread's message loop: GetMessage hands wndProc each posted message
\* in turn and wndProc returns; time passes.
MessageLoopFair(E) ==
    /\ WF_vars(WndProc_DoSetWindowPos) /\ WF_vars(DrainMoveChannel_Step(E))
    /\ WF_vars(DrainMoveChannel_Return)
    /\ WF_vars(WndProc_InjectSequence(E)) /\ WF_vars(WndProc_FocusTargetWindow(E))
    /\ WF_vars(Tick)

\* swallowed Win-ups and the injections that follow, with a main thread whose
\* message loop runs
SpecInjectLive == Init /\ [][Next(EnvInject)]_vars /\ MessageLoopFair(EnvInject)

\* move gestures and what the executor did for them
SpecMove == Init /\ [][Next(EnvMove)]_vars

\* focusing the dragged window, with the tray menu's setting for it
SpecFocus == Init /\ [][Next(EnvFocus) \/ Menu_ToggleFocusOnDrag]_vars

\* the events the hooks pass on untouched
SpecPass ==
    Init /\ [][\/ Next(EnvPass)
               \/ MouseInjected(EnvPass) \/ MouseNegativeCode(EnvPass)
               \/ KbdInjected(EnvPass) \/ KbdNegativeCode(EnvPass)]_vars

\* resize gestures and the minimum sizes the executor learns
SpecResize == Init /\ [][Next(EnvResize)]_vars

\* gestures on an elevated window and the notifications they cause
SpecTray == Init /\ [][Next(EnvTray)]_vars

\* the hook thread and the main thread side by side, the executor step by step
SpecRace ==
    Init /\ [][\/ Next(EnvRace)
               \/ Executor_NilCheck(EnvRace) \/ Executor_AntiSlide(EnvRace)]_vars

\* which thread touches which global
SpecAccess == Init /\ [][Next(EnvAccess)]_vars

\* the hand-over of the commands, the channel holding more than one of them
OrderCap == ChanCap + 1

SpecOrder == InitCap(OrderCap) /\ [][Next(EnvOrder)]_vars

\* the drain of the commands while the main thread's message loop keeps
\* dispatching
SpecDrainLive ==
    InitCap(OrderCap) /\ [][Next(EnvDrain)]_vars /\ MessageLoopFair(EnvDrain)

\* the Executor's rate limit
SpecRate == InitCap(OrderCap) /\ [][Next(EnvRate)]_vars

\* resizing from every zone
SpecZones == Init /\ [][Next(EnvZones)]_vars

\* what the move commands hold
SpecContent == Init /\ [][Next(EnvContent) \/ Menu_ToggleRatelimitOnMove]_vars

\* button-downs and button-ups
SpecButtons == Init /\ [][Next(EnvButtons)]_vars

\* the window a focus request ends up focusing
SpecFocusArg == Init /\ [][Next(EnvFocusArg)]_vars

\* commands executed after their gesture has ended
SpecStale == Init /\ [][Next(EnvStale)]_vars

\* the program from start to exit: tray Exit, WM_ENDSESSION, Ctrl+C or a panic
\* on the hook thread
SpecShutdown ==
    Init /\ [][\/ Next(EnvShutdown)
               \/ Hook_PanicUnwinds \/ Hook_Acknowledged \/ Hook_WatchdogTimeout \/ Hook_Quit
               \/ Main_Exitf \/ Main_Quit \/ Main_PrimaryDefer(EnvShutdown)
               \/ Main_CloseLog \/ Main_OsExit]_vars

\* the same, with a hook thread that is scheduled and whose timer fires; the
\* main thread may hang
HookThreadFair ==
    /\ WF_vars(Hook_PanicUnwinds) /\ WF_vars(Hook_Acknowledged)
    /\ WF_vars(Hook_WatchdogTimeout) /\ WF_vars(Hook_Quit)

SpecShutdownLive == SpecShutdown /\ HookThreadFair

\* the same program from start to exit, with the WM_MOUSEMOVE callback of a
\* resize in two steps: deinit, on the main thread, writes the globals the
\* callback reads, and nothing orders the two
SpecDeinitRace ==
    Init /\ [][\/ Next(EnvShutdown)
               \/ MouseMove_Calculates(EnvShutdown) \/ MouseMove_Sends(EnvShutdown)
               \/ Hook_PanicUnwinds \/ Hook_Acknowledged \/ Hook_WatchdogTimeout \/ Hook_Quit
               \/ Main_Exitf \/ Main_Quit \/ Main_PrimaryDefer(EnvShutdown)
               \/ Main_CloseLog \/ Main_OsExit]_vars

\* ------------------------------------------------------------ properties
\* GestureMode: Idle, Moving, Resizing in terms of the globals
Idle == ~capturing /\ ~resizing /\ currentDrag = Nil /\ targetWnd = 0
Moving == capturing /\ currentDrag # Nil
Resizing == resizing /\ currentDrag # Nil
WinAlone == asyncWin # {}      \* with NoMods as the event's modifiers

\* C2: in every reachable state capturing and resizing are not both true.
C2_MovingResizingExclusive == ~(capturing /\ resizing)

\* C5: in every reachable state currentDrag is non-nil exactly when capturing
\* or resizing is true.
C5_DragStateIffGesture == (currentDrag # Nil) <=> (capturing \/ resizing)

\* C6: in Moving and in Resizing alike, a mouse move handled while the async
\* key state reports both Win keys up leaves the machine Idle and enqueues
\* no command.
C6_WinReleaseEndsGesture ==
    [][\A pt \in EnvDesktop.points :
         ((Moving \/ Resizing) /\ asyncWin = {} /\ MouseMoveAt(EnvDesktop, pt, TRUE))
         => (Idle' /\ moveDataChan' = moveDataChan /\ hookSend' = Nil)]_vars

\* C7: after the hard reset of a mouse move that observes Win released during
\* Moving, the machine is Idle and winGestureUsed is false.
C7_HardResetClearsAll ==
    [][\A pt \in EnvDesktop.points :
         (Moving /\ asyncWin = {} /\ MouseMoveAt(EnvDesktop, pt, TRUE))
         => (Idle' /\ ~winGestureUsed')]_vars

\* C8: with a Moving gesture on W1 left unfinished, a Win+LMB-down over a
\* different window W2 makes targetWnd W2 and the DragState the new cursor
\* position with W2's rectangle, and every move command enqueued names targetWnd.
C8_FreshGestureOnOtherWindow ==
    [][/\ \A pt \in EnvDesktop.points, w2 \in EnvDesktop.windows, fgWnd \in {0} \cup EnvDesktop.windows :
            \A rect \in WindowRects(w2) :
              (Moving /\ targetWnd # 0 /\ w2 # targetWnd /\ WinAlone
                 /\ LButtonDownAt(EnvDesktop, NoMods, pt, w2, rect, fgWnd))
              => (/\ targetWnd' = w2 /\ currentDrag' # Nil
                  /\ currentDrag'.startPt = pt /\ currentDrag'.startRect = rect)
       /\ \A pt \in EnvDesktop.points :
            (capturing /\ MouseMoveAt(EnvDesktop, pt, TRUE))
            => \A i \in (Len(moveDataChan) + 1)..Len(moveDataChan') :
                 SWP_NOSIZE \in moveDataChan'[i].Flags => moveDataChan'[i].Hwnd = targetWnd'
      ]_vars

\* C9: a same-button-down with Win alone during a gesture on W1: over another
\* window W2 the gesture restarts on W2 (same kind, fresh DragState); over W1
\* the event is swallowed and the state is unchanged.  For Win+RMB while
\* Resizing as for Win+LMB while Moving.
GestureVars == <<capturing, resizing, targetWnd, currentDrag, resizeZone, initialAspectRatio>>

C9_SameButtonDownDuringGesture ==
    [][\A pt \in EnvDesktop.points, w \in EnvDesktop.windows :
         \A rect \in WindowRects(w) :
           /\ \A fgWnd \in {0} \cup EnvDesktop.windows :
                (Moving /\ ~resizing /\ targetWnd # 0 /\ WinAlone
                   /\ LButtonDownAt(EnvDesktop, NoMods, pt, w, rect, fgWnd))
                => IF w = targetWnd
                   THEN UNCHANGED GestureVars /\ ret' = "swallow"
                   ELSE /\ targetWnd' = w /\ capturing' /\ ~resizing' /\ currentDrag' # Nil
                        /\ currentDrag'.startPt = pt /\ currentDrag'.startRect = rect
           /\ (Resizing /\ ~capturing /\ targetWnd # 0 /\ WinAlone
                 /\ RButtonDownAt(EnvDesktop, NoMods, pt, w, rect))
              => IF w = targetWnd
                 THEN UNCHANGED GestureVars /\ ret' = "swallow"
                 ELSE /\ targetWnd' = w /\ resizing' /\ ~capturing' /\ currentDrag' # Nil
                      /\ currentDrag'.startPt = pt /\ currentDrag'.startRect = rect
      ]_vars

\* C10: a left- or right-button-down with Win alone at a point where
\* windowFromPoint returns 0 leaves capturing = false, resizing = false,
\* currentDrag = nil and targetWnd = 0, whatever the state before.
C10_NoWindowResets ==
    [][\A pt \in EnvDesktop.points :
         (WinAlone /\ (\/ RButtonDownAt(EnvDesktop, NoMods, pt, 0, NoRect)
                       \/ \E fgWnd \in {0} \cup EnvDesktop.windows :
                            LButtonDownAt(EnvDesktop, NoMods, pt, 0, NoRect, fgWnd)))
         => Idle']_vars

\* C1: at each of the three enqueue sites of mouseProc (move command during
\* Moving, resize command during Resizing, z-order command on Win+MMB), with
\* moveDataChan full and the worker not draining, the callback returns without
\* waiting and droppedMoveEvents increases by exactly 1.
ChanFullWorkerIdle == Len(moveDataChan) = ChanCap /\ workerPc = "idle" /\ elapsed
PushDropped ==
    hookSend' = Nil /\ moveDataChan' = moveDataChan
    /\ droppedMoveEvents' = droppedMoveEvents + 1

C1_HookNeverBlocks ==
    [][/\ \A pt \in EnvQueue.points :
            (ChanFullWorkerIdle
               /\ ((Moving /\ ~resizing /\ asyncWin # {}) \/ (Resizing /\ ~capturing))
               /\ MouseMoveAt(EnvQueue, pt, TRUE))
            => PushDropped
       /\ \A pt \in EnvQueue.points, m \in {NoMods, ShiftOnly}, hwnd \in EnvQueue.windows :
            (ChanFullWorkerIdle /\ asyncWin # {} /\ MButtonDownAt(EnvQueue, m, pt, hwnd))
            => PushDropped
      ]_vars

C4_PlainHoldPassesWinUp ==
    [][(~holdGesture /\ KbdWinUp(EnvWinKey))
       => (ret' = "pass" /\ msgQueue' = msgQueue /\ injected' = injected)]_vars

\* C11: a Win+LMB move gesture on a window of a higher-integrity process
\* raises no panic, and the LMB-up that ends it leaves the machine Idle.
OnElevatedWindow == capturing /\ ~resizing /\ targetWnd \in ElevatedWnds /\ currentDrag = Nil

C11_ElevatedMoveEndsIdle ==
    [][(OnElevatedWindow /\ LButtonUp(EnvDesktop)) => (panicked' = "none" /\ Idle')]_vars

\* C12: after a Moving gesture that started at cursor c0 on a window whose
\* rectangle had top-left p0 and that an LMB-up ended when the last cursor
\* position delivered was c1, once the worker has drained the queue the last
\* placement executed is of that window at p0 + (c1 - c0) (none was needed
\* if the cursor is back at c0 and nothing was executed).
Drained ==
    /\ moveDataChan = <<>> /\ workerPc = "idle" /\ hookSend = Nil
    /\ \A i \in 1..Len(msgQueue) : msgQueue[i].msg # "WM_DO_SETWINDOWPOS"

C12_FinalPositionFollowsCursor ==
    (endedMove # Nil /\ endedMove.c1 # Nil /\ Drained)
    => IF placed = Nil THEN endedMove.c1 = endedMove.c0
       ELSE placed = [Hwnd |-> endedMove.Hwnd,
                      X |-> endedMove.p0.X + (endedMove.c1.X - endedMove.c0.X),
                      Y |-> endedMove.p0.Y + (endedMove.c1.Y - endedMove.c0.Y)]

\* C13: whenever mouseProc enqueues a command into moveDataChan (move, resize
\* or z-order), it posts one WM_DO_SETWINDOWPOS per command enqueued before
\* the callback returns.
Wakes(q) == Cardinality({i \in 1..Len(q) : q[i].msg = "WM_DO_SETWINDOWPOS"})

C13_EnqueuePostsWake ==
    [][Len(moveDataChan') > Len(moveDataChan)
       => /\ Wakes(msgQueue') = Wakes(msgQueue) + (Len(moveDataChan') - Len(moveDataChan))
          /\ msgQueue'[Len(msgQueue')] = WM_DO_SETWINDOWPOS]_vars

\* a resize command sits in the channel with its wake message posted behind
\* an earlier message that the worker has not handled yet
C13_Witness_ResizeEnqueued ==
    /\ moveDataChan # <<>> /\ moveDataChan[Len(moveDataChan)].W # 0
    /\ Len(msgQueue) = 2 /\ msgQueue[2] = WM_DO_SETWINDOWPOS /\ hookSend = Nil

\* C14: every synthetic key injection (the Shift tap and the
\* Shift-tap-plus-Win-up sequence) is executed on the worker thread; SendInput
\* is never called on the hook thread from inside mouseProc or keyboardProc.
C14_InjectionOnWorkerOnly == injected.what # "none" => injected.by = "worker"

\* C15: on a Win+LMB-down that starts a move, mouseProc posts
\* WM_FOCUS_TARGET_WINDOW_SOMEHOW if and only if focusOnDrag is enabled and the
\* target is not the foreground window; SetForegroundWindow (with
\* AttachThreadInput) is called only by the worker, handling that message.
StartsMove(want) == want # 0 /\ ~(capturing /\ targetWnd \in {0, want})

Untouched ==
    /\ UNCHANGED <<capturing, resizing, targetWnd, currentDrag, winGestureUsed>>
    /\ UNCHANGED <<moveDataChan, msgQueue, injected, hookSend>>

C16_ModifierLmbDownPasses ==
    [][\A m \in EnvPass.mods \ {NoMods}, pt \in EnvPass.points :
         LButtonDownAt(EnvPass, m, pt, 0, NoRect, 0) => (Untouched /\ ret' = "pass")]_vars

\* an LMB-down with Win down has just been passed on during a move gesture
C16_Witness_PassedDuringHold ==
    /\ lastEv = "WM_LBUTTONDOWN" /\ ret = "pass" /\ asyncWin # {}
    /\ capturing /\ currentDrag # Nil /\ winGestureUsed

\* C17: a mouse or keyboard hook event that carries the injected flag is
\* passed to the next hook, never swallowed, changes none of capturing,
\* resizing, targetWnd, currentDrag, winGestureUsed, and causes no further
\* injection (none made, none requested).
C17_InjectedEventsPass ==
    [][(MouseInjected(EnvPass) \/ KbdInjected(EnvPass)) => (Untouched /\ ret' = "pass")]_vars

\* a Win-up carrying the injected flag has just passed through keyboardProc
\* while winGestureUsed is set (the user's own Win-up would be swallowed
\* there), after this program has injected a Shift tap
C17_Witness_InjectedWinUpPassed ==
    /\ lastEv = "injected: WM_KEYUP VK_LWIN" /\ ret = "pass" /\ winGestureUsed
    /\ injected.what = "ShiftTap" /\ msgQueue = <<>>

\* C18: for both hooks, an event with a negative hook code is handed to
\* CallNextHookEx and that result is returned; capturing, resizing, targetWnd,
\* currentDrag and winGestureUsed are unchanged and nothing is enqueued,
\* posted or injected.
C18_NegativeCodePasses ==
    [][(MouseNegativeCode(EnvPass) \/ KbdNegativeCode(EnvPass))
       => (Untouched /\ ret' = "pass")]_vars

\* a Win-up with a negative hook code has just passed through keyboardProc
\* while winGestureUsed is set
C18_Witness_NegativeCodeWinUp ==
    /\ lastEv = "nCode < 0: WM_KEYUP VK_LWIN" /\ ret = "pass" /\ winGestureUsed

\* C19: every non-injected MMB-down with Win down and Ctrl and Alt up is
\* swallowed and enqueues exactly one z-order command: without Shift for the
\* window under the cursor with HWND_BOTTOM and NOMOVE|NOSIZE|NOACTIVATE, with
\* Shift for the foreground window with HWND_TOP and NOMOVE|NOSIZE.
C19_MmbEnqueuesZOrder ==
    [][\A pt \in EnvDesktop.points, m \in {NoMods, ShiftOnly}, hwnd \in EnvDesktop.windows :
         (asyncWin # {} /\ MButtonDownAt(EnvDesktop, m, pt, hwnd))
         => /\ ret' = "swallow"
            /\ moveDataChan' =
                 Append(moveDataChan,
                        IF m = NoMods
                        THEN WindowMoveData(hwnd, 0, 0, 0, 0, HWND_BOTTOM,
                                            {SWP_NOMOVE, SWP_NOSIZE, SWP_NOACTIVATE})
                        ELSE WindowMoveData(hwnd, 0, 0, 0, 0, HWND_TOP,
                                            {SWP_NOMOVE, SWP_NOSIZE}))]_vars

\* C20: during Resizing every resize command requests a width of at least
\* knownMinW and a height of at least knownMinH as the DragState holds them at
\* that moment, and the executor never lowers knownMinW / knownMinH.
NewCommand ==
    IF hookSend' # Nil THEN hookSend' ELSE moveDataChan'[Len(moveDataChan')]

C20_ResizeRespectsKnownMinimums ==
    [][/\ \A pt \in EnvResize.points :
            (Resizing /\ ~capturing /\ MouseMoveAt(EnvResize, pt, TRUE)
               /\ (hookSend' # Nil \/ Len(moveDataChan') > Len(moveDataChan)))
            => /\ NewCommand.W >= currentDrag.knownMinW
               /\ NewCommand.H >= currentDrag.knownMinH
       /\ (currentDrag # Nil /\ DrainMoveChannel_Step(EnvResize))
          => /\ currentDrag'.knownMinW >= currentDrag.knownMinW
             /\ currentDrag'.knownMinH >= currentDrag.knownMinH
      ]_vars

\* C21: across all commands of one move or resize gesture whose target rejects
\* SetWindowPos with access-denied, the executor issues the notification
\* exactly once (each denied command is dropped, none is retried): the
\* executor never notifies a second time for the same DragState
C21_DeniedNotifiesOnce == deniedNotes <= 1

\* C22: keyboardProc swallows an event only when it is a non-injected key-up
\* of VK_LWIN or VK_RWIN and winGestureUsed is true; every other keyboard
\* event (any key-down, any other key-up, a Win-up with winGestureUsed false)
\* is passed to the next hook and changes no gesture state. Stated for
\* keyboardProc applied to every input in the current state, and for the
\* keyboard callbacks that take place.
SwallowCase(nCode, wParam, flags, vk) ==
    /\ nCode >= 0 /\ ~FlaggedInjected(flags)
    /\ wParam \in {"WM_KEYUP", "WM_SYSKEYUP"} /\ vk \in WinKeys
    /\ winGestureUsed

SameGestureState(s) ==
    /\ s.capturing = capturing /\ s.resizing = resizing /\ s.targetWnd = targetWnd
    /\ s.currentDrag = currentDrag /\ s.resizeZone = resizeZone
    /\ s.winGestureUsed = winGestureUsed

C22_KeyboardSwallowsOnlyGestureWinUp ==
    [][/\ \A nCode \in HookCodes, wParam \in KeyMsgs, flags \in SUBSET {"INJECTED"},
             vk \in Keys :
            LET s == keyboardProc(HookState, nCode, wParam, flags, vk)
            IN IF SwallowCase(nCode, wParam, flags, vk)
               THEN s.ret = "swallow"
               ELSE s.ret = "pass" /\ SameGestureState(s)
       /\ (\/ KbdWinDown(EnvPass) \/ KbdWinUp(EnvPass) \/ KbdOtherKey(EnvPass)
           \/ KbdInjected(EnvPass) \/ KbdNegativeCode(EnvPass))
          => IF KbdWinUp(EnvPass) /\ winGestureUsed
             THEN ret' = "swallow"
             ELSE ret' = "pass" /\ UNCHANGED <<GestureVars, winGestureUsed>>
      ]_vars

\* the user's Win-up has just been passed on because no gesture used the hold,
\* while a resize gesture is under way
C22_Witness_WinUpPassedNoGesture ==
    /\ lastEv = "WM_KEYUP" /\ ret = "pass" /\ ~winGestureUsed /\ resizing

\* C23: every physical Win-up that keyboardProc swallows is eventually
\* followed, while the main thread's message loop runs, by an injected
\* Right-Shift down and up and key-up of the same Win key; and winGestureUsed
\* is false once the hook has handled that Win-up. The swallowed Win-ups are
\* numbered modulo SeqMod: swallowing the n-th posts the n-th
\* WM_INJECT_SEQUENCE message, for that key, behind the messages that wait;
\* the n-th such message is eventually handled; handling it injects the
\* sequence for the key it names.
InjectsPending ==
    Cardinality({i \in 1..Len(msgQueue) : msgQueue[i].msg = "WM_INJECT_SEQUENCE"})

SwallowSeq == (injectSeq + InjectsPending) % SeqMod

C23_SwallowedWinUpIsInjected ==
    /\ \A n \in 0..(SeqMod - 1) :
         (InjectsPending > 0 /\ SwallowSeq = n) ~> (injectSeq = n \/ panicked # "none")
    /\ [][/\ KbdWinUp(EnvInject) /\ msgQueue' # msgQueue
             => /\ ~winGestureUsed'
                /\ msgQueue' = Append(msgQueue, WM_INJECT_SEQUENCE(physWin))
          /\ WndProc_InjectSequence(EnvInject)
             => /\ Head(msgQueue).msg = "WM_INJECT_SEQUENCE" /\ msgQueue' = Tail(msgQueue)
                /\ injected' = [what |-> "ShiftTapThenWinUp", by |-> "worker",
                                vk |-> Head(msgQueue).wParam]
                /\ Head(msgQueue).wParam \notin asyncWin'
                /\ \E n \in 0..(SeqMod - 1) :
                     n = (injectSeq + 1) % SeqMod /\ injectSeq' = n
         ]_vars

\* the injected sequence for the right Win key has been sent while the user
\* already holds the left Win key down again
C23_Witness_InjectedAfterSwallow ==
    /\ injected = [what |-> "ShiftTapThenWinUp", by |-> "worker", vk |-> "VK_RWIN"]
    /\ injectSeq = 2 /\ physWin = "VK_LWIN" /\ ~winGestureUsed /\ InjectsPending = 0

\* C24: soft reset is idempotent: from any state, applying softReset twice
\* yields the same state as applying it once (capturing = false, resizing =
\* false, targetWnd = 0, currentDrag = nil), and neither application changes
\* winGestureUsed.
IsReset(s) == ~s.capturing /\ ~s.resizing /\ s.targetWnd = 0 /\ s.currentDrag = Nil

C24_SoftResetIdempotent ==
    \A releaseCapture \in BOOLEAN :
      LET once == softReset(HookState, releaseCapture)
          twice == softReset(once, releaseCapture)
      IN /\ IsReset(once) /\ twice = once
         /\ once.winGestureUsed = winGestureUsed
         /\ twice.winGestureUsed = winGestureUsed

\* the LMB-up that ended a move gesture has applied softReset while the Win
\* key is held: the state is one that softReset leaves as it is, and
\* winGestureUsed is still set
C24_Witness_ResetByLmbUp ==
    /\ lastEv = "WM_LBUTTONUP" /\ ret = "swallow" /\ winGestureUsed /\ physWin # NoKey
    /\ softReset(HookState, TRUE) = HookState

\* C25: no sequence of non-injected mouse and keyboard events makes mouseProc
\* raise a panic: none of "impossible state" (capturing with targetWnd = 0),
\* "race detected2" (LMB-up) and "race detected1" (RMB-up) is ever raised,
\* an RMB-up during Moving and an LMB-up during Resizing included.
C25_MouseProcNeverPanics == panicked = "none"

\* C26: whenever the executor reads or writes the DragState
\* (currentDrag.knownMinW, knownMinH, startRect) the hook thread is not
\* executing a hook callback, so currentDrag cannot be set to nil by a
\* hook-side soft or hard reset between the executor's nil check and its
\* later dereferences: after the nil check, until the dereferences are done,
\* no step of the hook thread takes place and currentDrag is not nil.
C26_ExecutorSeesItsDragState ==
    [][workerPc = "antislide"
        => \/ Executor_AntiSlide(EnvRace)
           \/ UNCHANGED <<currentDrag, lastEv, capturing, resizing, targetWnd>>
              /\ currentDrag # Nil]_vars

\* C27: the command queue moveDataChan, with the atomic counters, is the only
\* mutable state accessed by both the hook thread and the main thread: none
\* of capturing, resizing, targetWnd, currentDrag, resizeZone, winGestureUsed
\* and lastResize is written by one of the two threads and read or written
\* by the other.
Other(thread) == IF thread = "hook" THEN "main" ELSE "hook"

C27_OnlyQueueIsShared ==
    \A v \in GestureGlobals \cup {"lastResize"}, t \in {"hook", "main"} :
      <<t, v, "w">> \in access
        => <<Other(t), v, "r">> \notin access /\ <<Other(t), v, "w">> \notin access

\* C28: after a panic on the hook thread, if the main thread never
\* acknowledges (mainAcknowledgedShutdown is never closed), the hook thread
\* does not wait forever: once the 2-second grace period has elapsed it
\* proceeds to secondary_defer and terminates the process.
C28_WatchdogEndsProcess ==
    (hookPc = "watchdog") ~> (acked \/ exited # "no")

\* C29: on every shutdown path that runs primary_defer on the main thread
\* (tray Exit, WM_ENDSESSION, console Ctrl+C, re-raised hook-thread panic),
\* both low-level hooks have been unhooked by the hook thread before os.Exit
\* terminates the process.
C29_UnhookedBeforeExit == exited = "primary_defer" => hooks = {}

\* C30: drainMoveChannel hands the commands to handleActualMoveOrResize in the
\* order in which the hook sent them on moveDataChan, each one at most once:
\* the commands handed so far are, one for one, the first of the commands
\* sent so far.  And drainMoveChannel returns only from a turn of its loop that
\* found the channel empty.
IsPrefix(a, b) == Len(a) <= Len(b) /\ SubSeq(b, 1, Len(a)) = a

DrainReturns == workerPc = "drain" /\ workerPc' = "idle"

C30_HandedInEnqueueOrder ==
    /\ [](IsPrefix(order.handed, order.enqueued))
    /\ [][DrainReturns => moveDataChan = <<>>]_vars

\* a drain has handed over a command that had another one waiting behind it,
\* then that one, and has returned; the wake posted for the second command
\* is still in the message queue
C30_Witness_TwoHandedInOrder ==
    /\ order.behind /\ order.handed = <<>> /\ order.enqueued = <<>>
    /\ workerPc = "idle" /\ moveDataChan = <<>> /\ msgQueue # <<>>

\* C31: while the main thread's message loop keeps dispatching, every command
\* in moveDataChan is eventually handed to handleActualMoveOrResize: with k
\* commands in the channel, the newest of them k calls later (or a panic
\* has ended the loop).
C31_EnqueuedIsEventuallyHanded ==
    \A k \in 1..OrderCap : \A n \in 0..OrderCap :
        (Len(moveDataChan) = k /\ order.count = n)
            ~> (order.count = (n + k) % (OrderCap + 1) \/ panicked # "none")

\* two commands waited in the channel together, two calls of the Executor
\* later the channel is empty and the drain has returned
C31_Witness_DrainedToEmpty ==
    /\ order.behind /\ order.count = 2 /\ order.enqueued = <<>>
    /\ moveDataChan = <<>> /\ workerPc = "idle" /\ msgQueue = <<>>

\* C32: handleActualMoveOrResize calls SetWindowPos only if 10 ms have passed
\* since the last call it made returned; a command that drainMoveChannel takes
\* out earlier than that causes no call, adds exactly 1 to droppedMoveEvents and
\* leaves the main thread in the loop of drainMoveChannel.
Dequeues == workerPc = "drain" /\ Len(moveDataChan') < Len(moveDataChan)

C32_ExecutorRateLimit ==
    [][/\ swp' # swp => elapsed /\ ~elapsed'
       /\ Dequeues /\ ~elapsed =>
             /\ swp' = swp /\ droppedMoveEvents' = droppedMoveEvents + 1
             /\ workerPc' = "drain" /\ currentDrag' = currentDrag /\ ~elapsed']_vars

\* two commands were handed to the Executor in one drain: the first was
\* executed, the second one came too early and was dropped
C32_Witness_DroppedTooEarly ==
    /\ order.count = 2 /\ swp.calls = 1 /\ droppedMoveEvents = 1
    /\ ~elapsed /\ workerPc = "drain"

\* C33: in each of the eight corner and edge zones, for every cursor position,
\* the rectangle calculateResize returns keeps every edge the zone does not
\* drag where the start rectangle has it, also when a minimum clamps the
\* size: the left edge unless the zone is a left one, the right edge unless
\* it is a right one, and the same for top and bottom.
KeepsAnchors(cmd, r, zone) ==
    /\ zone \notin {0, 3, 6} => cmd.X = r.Left
    /\ zone \notin {2, 5, 8} => cmd.X + cmd.W = r.Right
    /\ zone \notin {0, 1, 2} => cmd.Y = r.Top
    /\ zone \notin {6, 7, 8} => cmd.Y + cmd.H = r.Bottom

C33_ResizeKeepsAnchorEdges ==
    [][\A pt \in EnvZones.points :
         (Resizing /\ resizeZone # ZONE_CENTER /\ MouseMoveAt(EnvZones, pt, TRUE)
            /\ (hookSend' # Nil \/ Len(moveDataChan') > Len(moveDataChan)))
         => KeepsAnchors(NewCommand, currentDrag.startRect, resizeZone)]_vars

\* a resize from the top-left zone whose command is clamped to the known
\* minimums: its right and bottom edges are the start rectangle's
C33_Witness_ClampedTopLeft ==
    /\ Resizing /\ resizeZone = 0 /\ moveDataChan # <<>>
    /\ LET cmd == Head(moveDataChan)
       IN /\ cmd.W = currentDrag.knownMinW /\ cmd.H = currentDrag.knownMinH
          /\ cmd.X > currentDrag.startRect.Left /\ cmd.Y > currentDrag.startRect.Top
          /\ cmd.X + cmd.W = currentDrag.startRect.Right
          /\ cmd.Y + cmd.H = currentDrag.startRect.Bottom

\* C34: every move command a mouse move enqueues during Moving names targetWnd,
\* asks for the start rectangle's top-left displaced by the cursor's
\* displacement since the gesture began, has W = H = 0 and carries
\* SWP_NOSIZE, SWP_NOZORDER and SWP_NOACTIVATE.  (The move command is the
\* first command the callback enqueues; where the program is resizing as
\* well and the rate limit on moves may skip the move command, the command
\* enqueued is the resize command and is not looked at.)
IsMoveCommand(cmd, pt) ==
    /\ cmd.Hwnd = targetWnd
    /\ cmd.X = currentDrag.startRect.Left + (pt.X - currentDrag.startPt.X)
    /\ cmd.Y = currentDrag.startRect.Top + (pt.Y - currentDrag.startPt.Y)
    /\ cmd.W = 0 /\ cmd.H = 0
    /\ {SWP_NOSIZE, SWP_NOZORDER, SWP_NOACTIVATE} \subseteq cmd.Flags

C34_MoveCommandContent ==
    [][\A pt \in EnvContent.points, interval \in BOOLEAN :
         (Moving /\ (~resizing \/ ~ratelimitOnMove)
            /\ MouseMoveAt(EnvContent, pt, interval)
            /\ Len(moveDataChan') > Len(moveDataChan))
         => IsMoveCommand(moveDataChan'[Len(moveDataChan) + 1], pt)]_vars

\* a move command for window 2, whose rectangle does not begin at the origin,
\* dragged from (100, 100) to (350, 350), is in the channel
C34_Witness_MoveQueued ==
    /\ Moving /\ targetWnd = 2 /\ currentDrag.startPt = Pt(100, 100)
    /\ moveDataChan # <<>> /\ Head(moveDataChan).Hwnd = 2
    /\ Head(moveDataChan).X = 340 /\ Head(moveDataChan).Y = 340

\* C35: the hooks are unhooked only in a step of the hook thread (its
\* deferred functions, as hookWorker leaves its message loop); no step of the
\* main thread through primary_defer and deinit unhooks them, and deinit on the
\* main thread posts WM_QUIT to the hook thread.
C35_UnhookOnlyOnHookThread ==
    [][/\ hooks' # hooks => hookPc = "loop" /\ hookPc' # "loop" /\ mainPc' = mainPc
       /\ mainPc' # mainPc => hooks' = hooks
       /\ (mainPc = "primary_defer" /\ mainPc' = "deinit done")
            => "hook" \in quitPosted']_vars

\* deinit has run on the main thread and left the hooks installed; the hook
\* thread has then taken the WM_QUIT and unhooked them itself
C35_Witness_HookThreadUnhooked ==
    /\ mainPc = "deinit done" /\ exited = "no" /\ panicked = "none"
    /\ hookPc = "parked" /\ hooks = {}

\* C36: mouseProc swallows an LMB-up (RMB-up) if and only if it swallowed the
\* LMB-down (RMB-down) before it.
C36_ButtonUpTreatedAsItsDown ==
    [][/\ (LButtonUp(EnvButtons) /\ panicked' = "none")
            => (ret' = "swallow" <=> "L" \in downs)
       /\ (RButtonUp(EnvButtons) /\ panicked' = "none")
            => (ret' = "swallow" <=> "R" \in downs)]_vars

\* C37: when the main thread handles WM_FOCUS_TARGET_WINDOW_SOMEHOW, the handle
\* it passes to forceForeground is the window the request was posted for at the
\* Win+LMB-down, whatever hook events ran in between.
C37_FocusesRequestedWindow ==
    [][WndProc_FocusTargetWindow(EnvFocusArg)
         => /\ focusReq.pending # <<>>
            /\ focusReq'.arg = Head(focusReq.pending)]_vars

\* C38: when the Executor, handling a size-changing command, learns a minimum
\* into the DragState (and recomputes the rectangle from that DragState and
\* resizeZone for its corrective SetWindowPos), the DragState is that of the
\* gesture that produced the command: the command's window is the gesture's
\* targetWnd.
C38_ExecutorUsesOwnGesture ==
    [][(DrainMoveChannel_Step(EnvStale) /\ currentDrag' # currentDrag)
         => Head(moveDataChan).Hwnd = targetWnd]_vars

\* C39: no thread sends on logChan after it has been closed: once
\* closeAndFlushLog has closed the channel, no later logf call of the hook
\* thread or of the main thread executes the channel send.
C39_NoSendOnClosedLogChan == closedSend = {}

\* C40: every command the hook enqueues has a non-zero target window: in
\* every reachable state currentDrag non-nil implies targetWnd non-zero, and
\* no command with Hwnd = 0 is in the channel or being sent.
C40_CommandsHaveTarget ==
    /\ currentDrag # Nil => targetWnd # 0
    /\ \A i \in 1..Len(moveDataChan) : moveDataChan[i].Hwnd # 0
    /\ hookSend # Nil => hookSend.Hwnd # 0

====
